---------------------------- MODULE Spec2Model ----------------------------
(***************************************************************************)
(* A model of the scheduling/dispatch engine of src/abcd.py:               *)
(*   - AdaptiveRateLimiter (the rate governor): the global and the         *)
(*     per-chat token buckets, their asyncio locks, the adaptive rate;     *)
(*   - ThreeModeScheduler.process_due_posts / send_batch_to_all_channels / *)
(*     send_post_to_channel with SmartRetrySystem (the dispatch engine).   *)
(*                                                                         *)
(* asyncio runs one coroutine at a time and switches only at an await that *)
(* really suspends, so one action is the code between two suspensions.     *)
(*                                                                         *)
(* Units.  The event-loop clock is counted in ticks, TicksPerSec to the    *)
(* second.  A token balance is counted in 1/TokenScale of a token and a    *)
(* rate in 1/RateScale of a token per second, so that the float arithmetic *)
(* of the buckets is exact integer arithmetic for the rates the program    *)
(* is built with (25/s or 5/s globally, a whole number per minute and     *)
(* chat).                                                                  *)
(***************************************************************************)
EXTENDS Integers, Sequences, FiniteSets, TLC

\* ------------------------------------------------------------------ units
TicksPerSec == 75
TokenScale == 4500
RateScale == 1000
UnitsPerTick == TokenScale \div TicksPerSec

\* ------------------------------------------------- constants of the program
RATE_LIMIT_GLOBAL == 25
RATE_LIMIT_PER_CHAT == 18
BURST_ALLOWANCE == 50
MIN_SAFETY_RATE == 10
RECOVERY_SUCCESSES == 50
RECOVERY_DELAY_SEC == 60
FETCH_WINDOW_SEC == 30
FETCH_LIMIT == 200
GROUP_GAP_SEC == 5
MAX_WAIT_SEC == 30
RUN_PAUSE_SEC == 1
LOOP_IDLE_SEC == 10
LOOP_LEAD_SEC == 2
LOOP_MIN_SEC == 1
LOOP_MAX_SEC == 15
LOOP_DUE_SEC == 1
LOOP_PAUSE_SEC == 5
CLEANUP_ROUNDS == 2
AUTO_CLEANUP_MINUTES == 30
ALERT_THRESHOLD == 5

\* ------------------------------------------------------------------ bounds
NumTasks == 2
NumChats == 2
MaxCalls == 5
BurstCalls == 16
MaxIdleTicks == 1
MaxFloods == 2
MaxAdaptTicks == 4
MaxSuccessCount == 52
NumPosts == 2
NumChannels == 2
MaxPasses == 2
MaxFailures == 1
MaxConsecutive == 5
RunPosts == 3
GroupPosts == 4

Tasks == 1..NumTasks
NoTask == 0
NoTime == -1

\* The governor as the program builds it (AdaptiveRateLimiter() with the module's
\* BURST_ALLOWANCE), as the documented scenario builds it (5 msg/s, burst 10), and
\* with small ceilings, AdaptiveRateLimiter(global_rate=5, per_chat_rate=2) with a
\* burst of 2, where the buckets run dry after a few acquisitions.
Configs ==
  { [rate |-> RATE_LIMIT_GLOBAL, burst |-> BURST_ALLOWANCE, per_chat |-> RATE_LIMIT_PER_CHAT],
    [rate |-> 5, burst |-> 10, per_chat |-> RATE_LIMIT_PER_CHAT],
    [rate |-> 5, burst |-> 2, per_chat |-> 2] }

VARIABLES
  \* AdaptiveRateLimiter
  base_global_rate, per_chat_rate, burst_allowance,
  global_tokens, global_last_update, global_lock,
  chat_tokens, chat_locks,
  current_rate, flood_detected, last_flood_time, success_count,
  \* the event-loop clock and the tasks calling acquire
  now, pc, arg, wake,
  \* ThreeModeScheduler and its SmartRetrySystem; the posts table; the locals of the
  \* background_poster coroutine while it is inside process_due_posts
  posts, channel_ids, skip_list, consecutive_failures, emergency_stopped,
  posting_lock, row_has_get, poster,
  \* history
  start_time, calls, gOrd, gDone, aDone, idleTicks, floods, sinceSignal,
  passes, fetchedBy, fanoutBy, persists, failures, recorded, last_failure,
  left_behind, handed, first_failure

limiterVars == <<base_global_rate, per_chat_rate, burst_allowance>>
globalVars == <<global_tokens, global_last_update, global_lock>>
chatVars == <<chat_tokens, chat_locks>>
adaptVars == <<current_rate, flood_detected, last_flood_time, success_count>>
taskVars == <<pc, arg, wake>>
histVars == <<start_time, calls, gOrd, gDone, aDone, idleTicks, floods, sinceSignal>>
healthVars == <<skip_list, consecutive_failures, recorded, last_failure>>
dispatchHist == <<passes, fetchedBy, fanoutBy, persists, failures, left_behind, handed,
                  first_failure>>
dispatchVars == <<posts, channel_ids, healthVars, emergency_stopped, posting_lock,
                  row_has_get, poster, dispatchHist>>
vars == <<limiterVars, globalVars, chatVars, adaptVars, now, taskVars, histVars,
          dispatchVars>>

\* ---------------------------------------------------------------- helpers
Min(a, b) == IF a < b THEN a ELSE b
Max(a, b) == IF a > b THEN a ELSE b
CeilDiv(a, b) == (a + b - 1) \div b

\* a report_flood_control that leaves the rate as it is
FloodRateKept(rate) == rate

\* self.current_rate * 0.7, floored at 10 (report_flood_control)
FloodRate(rate) == Max((rate * 7) \div 10, MIN_SAFETY_RATE * RateScale)

\* min(self.current_rate * 1.1, self.base_global_rate) (report_success)
RecoveredRate(rate, base) == Min((rate * 11) \div 10, base)

\* the refill without its cap
GlobalRefillUncapped(tokens, elapsed, rate, burst) ==
  tokens + elapsed * ((rate * UnitsPerTick) \div RateScale)

\* self.global_tokens += time_passed * self.current_rate, capped at BURST_ALLOWANCE
GlobalRefill(tokens, elapsed, rate, burst) ==
  Min(tokens + elapsed * ((rate * UnitsPerTick) \div RateScale), burst * TokenScale)

\* wait_time = (1.0 - self.global_tokens) / self.current_rate
GlobalWait(tokens, rate) ==
  CeilDiv((TokenScale - tokens) * RateScale, rate * UnitsPerTick)

\* the balance acquire_global leaves when it has slept: self.global_tokens = 0.0
GlobalAfterSleep(tokens) == 0

\* a consumption of two tokens for one acquisition
GlobalConsumeTwice(tokens) == Max(tokens - 2 * TokenScale, 0)

\* the balance acquire_global leaves when a token is there: self.global_tokens -= 1.0
GlobalConsume(tokens) == tokens - TokenScale

\* self.global_last_update as acquire_global leaves it: set to `now` before the sleep
\* and not again after it
GlobalStampAfterSleep(stamp, wakeTime) == stamp

\* tokens += time_passed * (self.per_chat_rate / 60.0), capped at per_chat_rate
ChatRefill(tokens, elapsed, pcr) ==
  Min(tokens + elapsed * ((pcr * UnitsPerTick) \div 60), pcr * TokenScale)

\* wait_time = (1.0 - tokens) / (self.per_chat_rate / 60.0)
ChatWait(tokens, pcr) == CeilDiv((TokenScale - tokens) * 60, pcr * UnitsPerTick)

\* an acquisition that leaves the destination's balance as it was
ChatConsumeNothing(tokens) == tokens

\* tokens -= 1.0 in acquire_chat
ChatConsume(tokens) == tokens - TokenScale

\* a global section entered without regard to the lock
GlobalNeverLocked == FALSE

\* `async with self.global_lock` suspends the caller while the lock is held
GlobalLocked == global_lock # NoTask

\* a destination's lock that is never given back
ChatLockedForEver(locks, c) == TRUE

\* `async with self.chat_locks[chat_id]` suspends the caller while that lock is held
ChatLocked(locks, c) == c \in DOMAIN locks /\ locks[c] # NoTask

\* if chat_id not in self.chat_locks: self.chat_locks[chat_id] = asyncio.Lock()
WithChatLock(locks, c) ==
  IF c \in DOMAIN locks THEN locks
  ELSE [x \in DOMAIN locks \cup {c} |-> IF x = c THEN NoTask ELSE locks[x]]

\* if chat_id not in self.chat_tokens: self.chat_tokens[chat_id] = (per_chat_rate, now)
WithChatBucket(buckets, c, pcr, t) ==
  IF c \in DOMAIN buckets THEN buckets
  ELSE [x \in DOMAIN buckets \cup {c} |->
          IF x = c THEN [tokens |-> pcr * TokenScale, last |-> t] ELSE buckets[x]]

EmptyMap == [x \in {} |-> 0]

\* the coroutine of background_poster outside process_due_posts
IdlePoster ==
  [pc |-> "start", cleanup_counter |-> 0, now_utc |-> 0, batches |-> <<>>, b |-> 0, i |-> 0,
   tasks |-> <<>>, failed_sends |-> <<>>, k |-> 0, wake |-> 0]

\* nothing recorded by record_failure yet
NoFailure == [msg |-> {}, type |-> "none"]

\* a scheduler with no post and no destination, left alone
SchedulerAtRest ==
  /\ posts = EmptyMap
  /\ channel_ids = <<>>
  /\ skip_list = {}
  /\ consecutive_failures = EmptyMap
  /\ emergency_stopped = FALSE
  /\ posting_lock = FALSE
  /\ row_has_get = TRUE
  /\ poster = IdlePoster
  /\ passes = 0
  /\ fetchedBy = EmptyMap
  /\ fanoutBy = EmptyMap
  /\ handed = EmptyMap
  /\ first_failure = EmptyMap
  /\ persists = EmptyMap
  /\ failures = 0
  /\ left_behind = {}
  /\ recorded = EmptyMap
  /\ last_failure = NoFailure

\* ------------------------------------------------------------------- Init
\* AdaptiveRateLimiter.__init__; the governor may have been degraded by a
\* rate-limit signal before the acquisitions looked at begin.
InitLimiter ==
  /\ \E cfg \in Configs :
       /\ base_global_rate = cfg.rate * RateScale
       /\ burst_allowance = cfg.burst
       /\ global_tokens = cfg.burst * TokenScale
       /\ per_chat_rate = cfg.per_chat
  /\ now = TicksPerSec
  /\ start_time = now
  /\ global_last_update = now
  /\ global_lock = NoTask
  /\ chat_tokens = EmptyMap
  /\ chat_locks = EmptyMap
  /\ success_count = 0
  /\ pc = [t \in Tasks |-> "idle"]
  /\ arg = [t \in Tasks |-> 0]
  /\ wake = [t \in Tasks |-> 0]
  /\ calls = 0
  /\ gOrd = [t \in Tasks |-> 0]
  /\ gDone = 0
  /\ aDone = 0
  /\ idleTicks = 0
  /\ sinceSignal = 0

InitFresh ==
  /\ InitLimiter
  /\ current_rate = base_global_rate
  /\ flood_detected = FALSE
  /\ last_flood_time = NoTime
  /\ floods = 0

InitAlone == InitFresh /\ SchedulerAtRest

InitGov ==
  /\ InitLimiter
  /\ SchedulerAtRest
  /\ \/ /\ current_rate = base_global_rate
        /\ flood_detected = FALSE
        /\ last_flood_time = NoTime
        /\ floods = 0
     \/ /\ current_rate = FloodRate(base_global_rate)
        /\ flood_detected = TRUE
        /\ last_flood_time = now
        /\ floods = 1

\* ------------------------------------------------- acquire_chat (182-206)
\* The critical section of acquire_chat, entered by task t for chat c with
\* the lock map `locks` (the chat's lock is free).
ChatSection(t, c, locks) ==
  LET buckets == WithChatBucket(chat_tokens, c, per_chat_rate, now)
      tk == ChatRefill(buckets[c].tokens, now - buckets[c].last, per_chat_rate)
  IN  IF tk < TokenScale
      THEN /\ chat_tokens' = buckets
           /\ chat_locks' = [locks EXCEPT ![c] = t]
           /\ pc' = [pc EXCEPT ![t] = "c_sleep"]
           /\ arg' = [arg EXCEPT ![t] = c]
           /\ wake' = [wake EXCEPT ![t] = now + ChatWait(tk, per_chat_rate)]
           /\ aDone' = aDone
      ELSE /\ chat_tokens' = [buckets EXCEPT ![c] = [tokens |-> ChatConsume(tk), last |-> now]]
           /\ chat_locks' = [locks EXCEPT ![c] = NoTask]
           /\ pc' = [pc EXCEPT ![t] = "idle"]
           /\ arg' = [arg EXCEPT ![t] = 0]
           /\ wake' = [wake EXCEPT ![t] = 0]
           /\ aDone' = aDone + 1

\* acquire_chat from its first line: the lock is created lazily, then taken or waited for.
AcquireChat(t, c) ==
  LET locks == WithChatLock(chat_locks, c)
  IN  IF ChatLocked(chat_locks, c)
      THEN /\ chat_locks' = locks
           /\ pc' = [pc EXCEPT ![t] = "c_wait"]
           /\ arg' = [arg EXCEPT ![t] = c]
           /\ wake' = [wake EXCEPT ![t] = 0]
           /\ UNCHANGED <<chat_tokens, aDone>>
      ELSE ChatSection(t, c, locks)

\* ----------------------------------------------- acquire_global (165-180)
\* The critical section of acquire_global, entered by task t (the lock is free) on
\* its call number ord; when a token is there the section ends in the same step and
\* acquire goes on to acquire_chat(c).
GlobalSection(t, c, ord) ==
  LET tk == GlobalRefill(global_tokens, now - global_last_update, current_rate,
                         burst_allowance)
  IN  /\ global_last_update' = now
      /\ IF tk < TokenScale
         THEN /\ global_tokens' = tk
              /\ global_lock' = t
              /\ pc' = [pc EXCEPT ![t] = "g_sleep"]
              /\ arg' = [arg EXCEPT ![t] = c]
              /\ gOrd' = [gOrd EXCEPT ![t] = ord]
              /\ wake' = [wake EXCEPT ![t] = now + GlobalWait(tk, current_rate)]
              /\ UNCHANGED <<chatVars, gDone, aDone>>
         ELSE /\ global_tokens' = GlobalConsume(tk)
              /\ global_lock' = NoTask
              /\ gDone' = gDone + 1
              /\ gOrd' = [gOrd EXCEPT ![t] = 0]
              /\ AcquireChat(t, c)

\* acquire(chat_id), called by task t (208-210)
Call(t, c) ==
  /\ pc[t] = "idle"
  /\ calls' = calls + 1
  /\ IF GlobalLocked
     THEN /\ pc' = [pc EXCEPT ![t] = "g_wait"]
          /\ arg' = [arg EXCEPT ![t] = c]
          /\ gOrd' = [gOrd EXCEPT ![t] = calls + 1]
          /\ UNCHANGED <<globalVars, chatVars, wake, gDone, aDone>>
     ELSE GlobalSection(t, c, calls + 1)
  /\ UNCHANGED <<dispatchVars, limiterVars, adaptVars, now, start_time, idleTicks, floods, sinceSignal>>

\* Idle tasks are alike and so are destinations never used, so the lowest idle task
\* makes the next call, and the first unused destination stands for every unused one.
Acquire(t, c) ==
  /\ calls < MaxCalls
  /\ \A u \in Tasks : pc[u] = "idle" => t <= u
  /\ c <= Cardinality(DOMAIN chat_locks) + 1
  /\ Call(t, c)

\* acquire for a destination no earlier call named
AcquireFresh(t) == calls < BurstCalls /\ Call(t, calls + 1)

\* a task waiting for the global lock gets it
GrantGlobal(t) ==
  /\ pc[t] = "g_wait"
  /\ ~GlobalLocked
  /\ GlobalSection(t, arg[t], gOrd[t])
  /\ UNCHANGED <<dispatchVars, limiterVars, adaptVars, now, start_time, calls, idleTicks,
                 floods, sinceSignal>>

\* asyncio.sleep(wait_time) in acquire_global returns
WakeGlobal(t) ==
  /\ pc[t] = "g_sleep"
  /\ now >= wake[t]
  /\ global_tokens' = GlobalAfterSleep(global_tokens)
  /\ global_last_update' = GlobalStampAfterSleep(global_last_update, now)
  /\ global_lock' = NoTask
  /\ gDone' = gDone + 1
  /\ gOrd' = [gOrd EXCEPT ![t] = 0]
  /\ AcquireChat(t, arg[t])
  /\ UNCHANGED <<dispatchVars, limiterVars, adaptVars, now, start_time, calls, idleTicks,
                 floods, sinceSignal>>

\* a task waiting for a chat's lock gets it
GrantChat(t) ==
  /\ pc[t] = "c_wait"
  /\ ~ChatLocked(chat_locks, arg[t])
  /\ ChatSection(t, arg[t], chat_locks)
  /\ UNCHANGED <<dispatchVars, limiterVars, globalVars, adaptVars, now, start_time, calls, gOrd,
                 gDone, idleTicks, floods, sinceSignal>>

\* asyncio.sleep(wait_time) in acquire_chat returns
WakeChat(t) ==
  /\ pc[t] = "c_sleep"
  /\ now >= wake[t]
  /\ chat_tokens' = [chat_tokens EXCEPT ![arg[t]] = [tokens |-> 0, last |-> now]]
  /\ chat_locks' = [chat_locks EXCEPT ![arg[t]] = NoTask]
  /\ pc' = [pc EXCEPT ![t] = "idle"]
  /\ arg' = [arg EXCEPT ![t] = 0]
  /\ wake' = [wake EXCEPT ![t] = 0]
  /\ aDone' = aDone + 1
  /\ UNCHANGED <<dispatchVars, limiterVars, globalVars, adaptVars, now, start_time, calls,
                 gOrd, gDone, idleTicks, floods, sinceSignal>>

\* ---------------------------------------------------------------- the clock
Sleeping(t) == pc[t] \in {"g_sleep", "c_sleep"}

\* one global token's worth of time at the governor's original rate
IdleStep == (TicksPerSec * RateScale) \div base_global_rate

\* time passes until a sleeper is due
TickToWake ==
  /\ \E t \in Tasks :
       /\ Sleeping(t)
       /\ wake[t] > now
       /\ now' = wake[t]
  /\ UNCHANGED <<dispatchVars, limiterVars, globalVars, chatVars, adaptVars, taskVars, histVars>>

\* time passes while nobody acquires
TickIdle ==
  /\ idleTicks < MaxIdleTicks
  /\ idleTicks' = idleTicks + 1
  /\ now' = now + IdleStep
  /\ UNCHANGED <<dispatchVars, limiterVars, globalVars, chatVars, adaptVars, taskVars,
                 start_time, calls, gOrd, gDone, aDone, floods, sinceSignal>>

\* ------------------------------------------------------- the governor alone
Chats == 1..NumChats

NextGov ==
  \/ \E t \in Tasks, c \in Chats : Acquire(t, c)
  \/ \E t \in Tasks : GrantGlobal(t)
  \/ \E t \in Tasks : WakeGlobal(t)
  \/ \E t \in Tasks : GrantChat(t)
  \/ \E t \in Tasks : WakeChat(t)
  \/ TickToWake
  \/ TickIdle

SpecGov == InitGov /\ [][NextGov]_vars

\* One caller acquiring back to back, every acquisition for a destination not used
\* before (a fan-out across distinct destinations).
Caller == 1

NextBurst ==
  \/ AcquireFresh(Caller)
  \/ WakeGlobal(Caller)
  \/ TickToWake
  \/ TickIdle

SpecBurst == InitAlone /\ [][NextBurst]_vars

\* ------------------------------------------------ adaptive control (212-227)
\* `self.last_flood_time and (now - self.last_flood_time) > 60`
RecoveryDelayPassed(last, t) ==
  /\ last # NoTime
  /\ last # 0
  /\ t - last > RECOVERY_DELAY_SEC * TicksPerSec

\* the body of report_flood_control (212-216)
FloodControl ==
  /\ flood_detected' = TRUE
  /\ last_flood_time' = now
  /\ current_rate' = FloodRate(current_rate)
  /\ floods' = floods + 1
  /\ sinceSignal' = 0

\* the body of report_success (218-227)
Success ==
  IF /\ flood_detected
     /\ success_count + 1 >= RECOVERY_SUCCESSES
     /\ RecoveryDelayPassed(last_flood_time, now)
  THEN /\ current_rate' = RecoveredRate(current_rate, base_global_rate)
       /\ success_count' = 0
       /\ flood_detected' =
            IF RecoveredRate(current_rate, base_global_rate) >= base_global_rate
            THEN FALSE ELSE flood_detected
       /\ sinceSignal' = 0
  ELSE /\ success_count' = success_count + 1
       /\ sinceSignal' = sinceSignal + 1
       /\ UNCHANGED <<current_rate, flood_detected>>

\* report_flood_control()
ReportFloodControl ==
  /\ floods < MaxFloods
  /\ FloodControl
  /\ UNCHANGED <<dispatchVars, limiterVars, globalVars, chatVars, success_count, now,
                 taskVars, start_time, calls, gOrd, gDone, aDone, idleTicks>>

\* report_success()
ReportSuccess ==
  /\ success_count < MaxSuccessCount
  /\ Success
  /\ UNCHANGED <<dispatchVars, limiterVars, globalVars, chatVars, last_flood_time, now,
                 taskVars, start_time, calls, gOrd, gDone, aDone, idleTicks, floods>>

\* half a minute passes
AdaptStep == 30 * TicksPerSec

TickAdapt ==
  /\ idleTicks < MaxAdaptTicks
  /\ idleTicks' = idleTicks + 1
  /\ now' = now + AdaptStep
  /\ UNCHANGED <<dispatchVars, limiterVars, globalVars, chatVars, adaptVars, taskVars,
                 start_time, calls, gOrd, gDone, aDone, floods, sinceSignal>>

NextAdapt ==
  \/ ReportFloodControl
  \/ ReportSuccess
  \/ TickAdapt

SpecAdapt == InitAlone /\ [][NextAdapt]_vars

\* =================================================== the dispatch engine
PostIds == 1..NumPosts
Channels == 1..NumChannels
NoTag == ""
Tags == {NoTag, "A"}
Sec(n) == n * TicksPerSec

\* the scheduled times posts are given: due when the scheduler starts, or beyond its
\* 30 s look-ahead then (and inside the look-ahead of a later pass)
ScheduleTimes == {Sec(1), Sec(46)}

\* The text of a TelegramError is the set of the phrases that occur in it, of those
\* the program looks for, each as it is written there (in lower case or capitalised).
PermanentPhrases ==
  {"bot was kicked", "bot was blocked", "chat not found", "user is deactivated"}
RateLimitPhrases == {"flood", "too many requests", "retry after"}
Capitalised == {"Chat not found", "Flood"}
Words == PermanentPhrases \cup RateLimitPhrases \cup Capitalised
Texts == SUBSET Words

\* the texts of the errors the bot raises in a dispatch: one of the phrases
\* classify_error takes for permanent, 'flood', 'retry after', or none of them
Phrases == {"bot was kicked", "flood", "retry after"}
Errors == {{}} \cup {{x} : x \in Phrases}

\* ------------------------------------------------ SmartRetrySystem (233-283)
\* str.lower()
Lower(word) ==
  IF word = "Chat not found" THEN "chat not found"
  ELSE IF word = "Flood" THEN "flood"
  ELSE word

LowerText(err) == {Lower(w) : w \in err}

\* a classifier that looks for the rate-limit phrases first
ClassifyRateLimitFirst(err) ==
  LET error_msg == LowerText(err)
  IN  IF \E x \in RateLimitPhrases : x \in error_msg THEN "rate_limit"
      ELSE IF \E x \in PermanentPhrases : x \in error_msg THEN "permanent"
      ELSE "temporary"

\* classify_error
ClassifyError(err) ==
  LET error_msg == LowerText(err)
  IN  IF \E x \in PermanentPhrases : x \in error_msg THEN "permanent"
      ELSE IF \E x \in RateLimitPhrases : x \in error_msg THEN "rate_limit"
      ELSE "temporary"

\* self.consecutive_failures.get(channel_id, 0)
FailureCount(counts, c) == IF c \in DOMAIN counts THEN counts[c] ELSE 0

\* counts[c] = n, on a dict
WithCount(counts, c, n) ==
  [x \in DOMAIN counts \cup {c} |-> IF x = c THEN n ELSE counts[x]]

\* a counter that counts the transient failures too
FailuresAfterAnyFailure(counts, c, err) ==
  WithCount(counts, c, FailureCount(counts, c) + 1)

\* record_failure: the counter
FailuresAfterFailure(counts, c, err) ==
  IF ClassifyError(err) # "temporary"
  THEN WithCount(counts, c, FailureCount(counts, c) + 1)
  ELSE counts

\* a skip list that keeps a destination only while its last failure is permanent
SkipsAfterLastFailure(skips, c, err) ==
  IF ClassifyError(err) = "permanent" THEN skips \cup {c} ELSE skips \ {c}

\* a record_failure that leaves the skip list alone
SkipsAfterNothing(skips, c, err) == skips

\* record_failure: the skip list
SkipsAfterFailure(skips, c, err) ==
  IF ClassifyError(err) = "permanent" THEN skips \cup {c} ELSE skips

\* record_failure(c, err) on the health tracker
RecordFailure(c, err) ==
  /\ consecutive_failures' = FailuresAfterFailure(consecutive_failures, c, err)
  /\ skip_list' = SkipsAfterFailure(skip_list, c, err)
  /\ recorded' = WithCount(recorded, c, ClassifyError(err))
  /\ last_failure' = [msg |-> err, type |-> ClassifyError(err)]

\* a record_success that leaves the counter of the destination as it is
RecordSuccessKeepingCount(c) ==
  /\ consecutive_failures' = consecutive_failures
  /\ skip_list' = skip_list \ {c}
  /\ recorded' = WithCount(recorded, c, "success")
  /\ last_failure' = last_failure

\* record_success(c) on the health tracker
RecordSuccess(c) ==
  /\ consecutive_failures' = WithCount(consecutive_failures, c, 0)
  /\ skip_list' = skip_list \ {c}
  /\ recorded' = WithCount(recorded, c, "success")
  /\ last_failure' = last_failure

\* an alert that waits for one failure more
NeedsAlertAbove(counts, c) == FailureCount(counts, c) > ALERT_THRESHOLD

\* needs_alert
NeedsAlert(counts, c) == FailureCount(counts, c) >= ALERT_THRESHOLD

\* a test that lets every destination through
ShouldSkipNone(skips, c) == FALSE

\* should_skip
ShouldSkip(skips, c) == c \in skips

\* the test of send_post_to_channel (805) for a rate-limit signal to the governor
IsFloodText(err) ==
  "flood" \in LowerText(err) \/ "too many requests" \in LowerText(err)

\* ------------------------------------------------- the posts table (880-926)
Row(p) ==
  [id |-> p, scheduled_time |-> posts[p].scheduled_time, batch_id |-> posts[p].batch_id]

\* a fetch that does not look at the delivered flag
DueIgnoringPosted(t) ==
  {p \in DOMAIN posts : posts[p].scheduled_time <= t + Sec(FETCH_WINDOW_SEC)}

\* a fetch that passes over the posts a pass has fetched before
DueNeverFetched(t) ==
  {p \in DOMAIN posts :
     /\ posts[p].scheduled_time <= t + Sec(FETCH_WINDOW_SEC)
     /\ posts[p].posted = 0
     /\ fetchedBy[p] = {}}

\* WHERE scheduled_time <= now + 30 s AND posted = 0
Due(t) ==
  {p \in DOMAIN posts :
     /\ posts[p].scheduled_time <= t + Sec(FETCH_WINDOW_SEC)
     /\ posts[p].posted = 0}

\* ORDER BY scheduled_time (rows of one time in the order of their ids)
RECURSIVE Ordered(_)
Ordered(S) ==
  IF S = {} THEN <<>>
  ELSE LET first == CHOOSE p \in S : \A q \in S :
                       \/ posts[p].scheduled_time < posts[q].scheduled_time
                       \/ /\ posts[p].scheduled_time = posts[q].scheduled_time
                          /\ p <= q
       IN  <<Row(first)>> \o Ordered(S \ {first})

\* LIMIT 200
Limited(rows) == SubSeq(rows, 1, Min(Len(rows), FETCH_LIMIT))

\* a distance that is always nothing
AbsNone(x) == 0

Abs(x) == IF x < 0 THEN -x ELSE x

\* the grouping loop of process_due_posts (898-926): rows[n..] are still to be placed,
\* `current` is the run being built, last_time and last_batch_id are those of the
\* post that opened it
RECURSIVE GroupFrom(_, _, _, _, _, _)
GroupFrom(rows, n, batches, current, last_time, last_batch_id) ==
  IF n > Len(rows)
  THEN IF current # <<>>
       THEN Append(batches, [time |-> last_time, posts |-> current])
       ELSE batches
  ELSE LET post == rows[n]
       IN  IF last_time = NoTime
           THEN GroupFrom(rows, n + 1, batches, <<post>>,
                          post.scheduled_time, post.batch_id)
           ELSE IF \/ post.batch_id # NoTag /\ post.batch_id = last_batch_id
                   \/ Abs(post.scheduled_time - last_time) <= Sec(GROUP_GAP_SEC)
                THEN GroupFrom(rows, n + 1, batches, Append(current, post),
                               last_time, last_batch_id)
                ELSE GroupFrom(rows, n + 1,
                               Append(batches, [time |-> last_time, posts |-> current]),
                               <<post>>, post.scheduled_time, post.batch_id)

\* a grouping that forgets the run still open when the rows are through (925-926)
GroupWithoutLast(rows) ==
  LET runs == GroupFrom(rows, 1, <<>>, <<>>, NoTime, NoTag)
  IN  SubSeq(runs, 1, Len(runs) - 1)

Group(rows) == GroupFrom(rows, 1, <<>>, <<>>, NoTime, NoTag)

\* ------------------------------------ the control flow of a pass (812-945)
\* A pass runs from one suspension to the next in one step.  The operators below
\* follow the code from a point of the pass to its next suspension and give the
\* locals of the coroutine there; they are listed from the end of a run backwards.
\* `skips` is the skip list and t the time at that moment.

\* the coroutine is inside the `async with self.posting_lock` of process_due_posts
InPass(rec) ==
  rec.pc \in {"batch_sleep", "fanout", "retry_send", "run_pause", "throttled"}

\* get_next_scheduled_post (1067-1074)
NextScheduled ==
  LET waiting == {p \in DOMAIN posts : posts[p].posted = 0}
  IN  IF waiting = {} THEN NoTime
      ELSE posts[CHOOSE p \in waiting : \A q \in waiting :
                   posts[p].scheduled_time <= posts[q].scheduled_time].scheduled_time

\* process_due_posts has returned to background_poster, which sleeps until the next
\* post is near (2104-2116)
AfterPass(rec, t) ==
  LET time_until_next == NextScheduled - t
      sleep_duration ==
        IF NextScheduled = NoTime THEN Sec(LOOP_IDLE_SEC)
        ELSE IF time_until_next > 0
             THEN Min(Max(time_until_next - Sec(LOOP_LEAD_SEC), Sec(LOOP_MIN_SEC)),
                      Sec(LOOP_MAX_SEC))
             ELSE Sec(LOOP_DUE_SEC)
  IN  [IdlePoster EXCEPT !.pc = "loop_sleep",
                         !.cleanup_counter = rec.cleanup_counter,
                         !.wake = t + sleep_duration]

\* a background_poster that an error of its pass ends
AfterRaiseStops(rec, t) ==
  [IdlePoster EXCEPT !.pc = "done",
                     !.cleanup_counter = rec.cleanup_counter,
                     !.wake = t]

\* process_due_posts has raised: background_poster logs it (2126-2127) and goes to the
\* sleep that ends every round (2129)
AfterRaise(rec, t) ==
  [IdlePoster EXCEPT !.pc = "loop_pause",
                     !.cleanup_counter = rec.cleanup_counter,
                     !.wake = t + Sec(LOOP_PAUSE_SEC)]

\* send_post_to_channel has raised in the retry of a pair for destination c, past
\* its acquire: nothing between there and background_poster catches it (2126)
RaisedIn(rec, c, t) ==
  [AfterRaise(rec, t) EXCEPT !.tasks = <<[channel_id |-> c, state |-> "raised"]>>]

\* the post being fanned out
PostOf(rec) == rec.batches[rec.b].posts[rec.i]

\* `await asyncio.sleep(1)` after a run (945)
Pause(rec, t) ==
  [rec EXCEPT !.pc = "run_pause", !.wake = t + Sec(RUN_PAUSE_SEC),
              !.i = 0, !.tasks = <<>>, !.failed_sends = <<>>, !.k = 0]

\* a retry loop that starts over from its first pair after every attempt
NextRetryAgain(rec, skips, t) ==
  LET todo == {j \in 1..Len(rec.failed_sends) :
                 ~ShouldSkip(skips, rec.failed_sends[j].channel_id)}
      next == CHOOSE j \in todo : \A x \in todo : j <= x
  IN  IF todo = {} THEN Pause(rec, t)
      ELSE IF rec.failed_sends[next].post_id \notin DOMAIN posts
      THEN RaisedIn(rec, rec.failed_sends[next].channel_id, t)
      ELSE [rec EXCEPT !.pc = "retry_send", !.k = next]

\* the retry loop (859-866) from its k-th pair: send_post_to_channel returns False
\* at once for a destination on the skip list; for another it goes through acquire
\* and suspends in the call of the bot.  The loop reads the row of the post again
\* (860-863): of a row that is no longer in the table fetchone gives None, and
\* post['media_type'] (791) raises TypeError, which is no TelegramError (804).
NextRetry(rec, skips, t) ==
  LET todo == {j \in rec.k..Len(rec.failed_sends) :
                 ~ShouldSkip(skips, rec.failed_sends[j].channel_id)}
      next == CHOOSE j \in todo : \A x \in todo : j <= x
  IN  IF todo = {} THEN Pause(rec, t)
      ELSE IF rec.failed_sends[next].post_id \notin DOMAIN posts
      THEN RaisedIn(rec, rec.failed_sends[next].channel_id, t)
      ELSE [rec EXCEPT !.pc = "retry_send", !.k = next]

\* after the loop over the posts of a run (854-856)
AfterPosts(rec, skips, t) ==
  IF rec.failed_sends # <<>> /\ ~emergency_stopped
  THEN NextRetry([rec EXCEPT !.k = 1], skips, t)
  ELSE Pause(rec, t)

\* the tasks of one fan-out (832-836): one send_post_to_channel per destination of
\* self.channel_ids.  gather starts them all before any of them is resumed, so each
\* has made its should_skip test (784) and, unless skipped, has been through acquire
\* (788) and is suspended in the call of the bot (792-798).
FanOut(skips) ==
  [n \in 1..Len(channel_ids) |->
     [channel_id |-> channel_ids[n],
      state |-> IF ShouldSkip(skips, channel_ids[n]) THEN "skipped" ELSE "send"]]

\* a loop over the posts of a run that does not look at the stop flag
EnterPostUnstopped(rec, skips, t) ==
  IF rec.i > Len(rec.batches[rec.b].posts)
  THEN AfterPosts(rec, skips, t)
  ELSE [rec EXCEPT !.pc = "fanout", !.tasks = FanOut(skips)]

\* the top of the loop over the posts of a run, at its i-th post (825-836)
EnterPost(rec, skips, t) ==
  IF rec.i > Len(rec.batches[rec.b].posts) \/ emergency_stopped
  THEN AfterPosts(rec, skips, t)
  ELSE [rec EXCEPT !.pc = "fanout", !.tasks = FanOut(skips)]

\* send_batch_to_all_channels from its first line (814-823)
EnterSendBatch(rec, skips, t) ==
  IF emergency_stopped THEN Pause(rec, t)
  ELSE EnterPost([rec EXCEPT !.i = 1, !.failed_sends = <<>>], skips, t)

\* EnterBatch without the sleep of lines 932-936: every run is dispatched on arrival
EnterBatchAtOnce(rec, skips, t) ==
  IF rec.b > Len(rec.batches) \/ emergency_stopped THEN AfterPass(rec, t)
  ELSE EnterSendBatch(rec, skips, t)

\* the top of the loop over the runs, at the b-th run (928-943); a pass that has no
\* run left, or is stopped, leaves process_due_posts and gives up posting_lock
EnterBatch(rec, skips, t) ==
  IF rec.b > Len(rec.batches) \/ emergency_stopped THEN AfterPass(rec, t)
  ELSE LET batch_time == rec.batches[rec.b].time
           wait_seconds == batch_time - t
       IN  IF /\ batch_time > rec.now_utc
              /\ wait_seconds > 0
              /\ wait_seconds <= Sec(MAX_WAIT_SEC)
           THEN [rec EXCEPT !.pc = "batch_sleep", !.wake = t + wait_seconds]
           ELSE EnterSendBatch(rec, skips, t)

\* --------------------------------- acquire as the dispatch calls it (788)
\* The buckets and lock maps of the governor.
Buckets ==
  [global_tokens |-> global_tokens, global_last_update |-> global_last_update,
   chat_tokens |-> chat_tokens, chat_locks |-> chat_locks, dry |-> FALSE]

\* acquire(c) at time t and global rate `rate` on the buckets g, for a caller that finds the
\* locks free and a token in either bucket, and so returns without suspending; dry
\* records that a token was missing
AcquireNow(g, c, rate, t) ==
  LET gt == GlobalRefill(g.global_tokens, t - g.global_last_update, rate,
                         burst_allowance)
      buckets == WithChatBucket(g.chat_tokens, c, per_chat_rate, t)
      ct == ChatRefill(buckets[c].tokens, t - buckets[c].last, per_chat_rate)
  IN  [global_tokens |-> GlobalConsume(gt),
       global_last_update |-> t,
       chat_tokens |-> [buckets EXCEPT ![c] = [tokens |-> ChatConsume(ct), last |-> t]],
       chat_locks |-> WithChatLock(g.chat_locks, c),
       dry |-> g.dry \/ gt < TokenScale \/ ct < TokenScale]

\* the acquisitions for cs[n..], one after the other
RECURSIVE AcquireAll(_, _, _, _, _)
AcquireAll(g, cs, n, rate, t) ==
  IF n > Len(cs) THEN g
  ELSE AcquireAll(AcquireNow(g, cs[n], rate, t), cs, n + 1, rate, t)

\* attempts that go to the bot without acquire (788 left out)
NoAcquirers(rec) == <<>>

\* the destinations whose attempts begin when the coroutine arrives at rec
RECURSIVE Sending(_, _)
Sending(tasks, n) ==
  IF n > Len(tasks) THEN <<>>
  ELSE (IF tasks[n].state = "send" THEN <<tasks[n].channel_id>> ELSE <<>>)
       \o Sending(tasks, n + 1)

Acquirers(rec) ==
  IF rec.pc = "fanout" THEN Sending(rec.tasks, 1)
  ELSE IF rec.pc = "retry_send" THEN <<rec.failed_sends[rec.k].channel_id>>
  ELSE IF rec.pc = "loop_pause" /\ rec.tasks # <<>> THEN <<rec.tasks[1].channel_id>>
  ELSE <<>>

\* the (post, destination) pairs whose attempts begin when the coroutine arrives at
\* rec: they are past the should_skip test (784) and on their way to the bot
Attempted(rec) ==
  IF rec.pc = "fanout"
  THEN {<<PostOf(rec).id, rec.tasks[n].channel_id>> :
          n \in {m \in DOMAIN rec.tasks : rec.tasks[m].state = "send"}}
  ELSE IF rec.pc = "retry_send"
  THEN {<<rec.failed_sends[rec.k].post_id, rec.failed_sends[rec.k].channel_id>>}
  ELSE {}

\* the coroutine begins a run: it is at the fan-out of the run's first post
BeginsRun(rec) == rec.pc = "fanout" /\ rec.i = 1

\* the coroutine is in a run or in the pause after it
InRun(rec) == rec.pc \in {"fanout", "retry_send", "run_pause"}

\* what is noted of the run in hand (or just done) when the coroutine arrives at rec:
\* nothing yet if a run begins there, nothing if it is outside every run
OfRun(noted, rec) ==
  IF BeginsRun(rec) \/ ~InRun(rec) THEN EmptyMap ELSE noted

\* how often each pair of the run has been through that test
HandedAfter(counts, rec) ==
  [x \in DOMAIN OfRun(counts, rec) \cup Attempted(rec) |->
     FailureCount(OfRun(counts, rec), x) + (IF x \in Attempted(rec) THEN 1 ELSE 0)]

\* The coroutine goes on to `new` in pass number pid at time t, with the governor at
\* global rate `rate`: the attempts that begin there acquire.  With the buckets of the
\* program (50 global tokens, 18 per destination) and the few posts and destinations
\* here no acquisition finds a bucket dry; one that did would suspend the attempt in
\* the governor, which is marked "throttled" and followed no further.
Continue(new, pid, rate, t) ==
  \E rec \in {new} :
    \E g \in {AcquireAll(Buckets, Acquirers(rec), 1, rate, t)} :
      /\ poster' = IF g.dry THEN [rec EXCEPT !.pc = "throttled"] ELSE rec
      /\ posting_lock' = InPass(rec)
      /\ fanoutBy' = IF rec.pc = "fanout"
                     THEN [fanoutBy EXCEPT ![PostOf(rec).id] = @ \cup {pid}]
                     ELSE fanoutBy
      /\ handed' = HandedAfter(handed, rec)
      /\ first_failure' = OfRun(first_failure, rec)
      /\ global_tokens' = g.global_tokens
      /\ global_last_update' = g.global_last_update
      /\ chat_tokens' = g.chat_tokens
      /\ chat_locks' = g.chat_locks
      /\ calls' = calls + Len(Acquirers(rec))
      /\ gDone' = gDone + Len(Acquirers(rec))
      /\ aDone' = aDone + Len(Acquirers(rec))

bucketVars ==
  <<global_tokens, global_last_update, chat_tokens, chat_locks, calls, gDone, aDone>>
governorRest == <<limiterVars, global_lock, taskVars, start_time, gOrd>>
governorAtRest == <<bucketVars, governorRest>>
adaptAll == <<adaptVars, floods, sinceSignal>>

\* ------------------------------------------------------------ Init
\* The scheduler after construction with NumChannels destinations loaded, nothing
\* recorded by the health tracker, and NumPosts undelivered posts in the table (ids
\* in the order of their times), scheduled one by one (no batch_id) or in one bulk
\* (2050: one batch_id for them all).  row_has_get says whether the rows the database
\* hands out have a .get method: process_due_posts (906) calls post.get('batch_id'),
\* which a mapping has, as the code takes its rows to be, and the sqlite3.Row that
\* get_db configures (595) has not.
InitDispatch ==
  /\ InitFresh
  /\ base_global_rate = RATE_LIMIT_GLOBAL * RateScale
  /\ burst_allowance = BURST_ALLOWANCE
  /\ \E tag \in Tags :
       posts \in [PostIds -> [scheduled_time : ScheduleTimes, batch_id : {tag},
                              posted : {0}, posted_at : {NoTime},
                              successful_posts : {0}]]
  /\ \A p, q \in PostIds : p < q => posts[p].scheduled_time <= posts[q].scheduled_time
  /\ channel_ids = [n \in 1..NumChannels |-> n]
  /\ skip_list = {}
  /\ consecutive_failures = EmptyMap
  /\ emergency_stopped = FALSE
  /\ posting_lock = FALSE
  /\ row_has_get \in BOOLEAN
  /\ poster = IdlePoster
  /\ passes = 0
  /\ fetchedBy = [p \in PostIds |-> {}]
  /\ fanoutBy = [p \in PostIds |-> {}]
  /\ handed = EmptyMap
  /\ first_failure = EmptyMap
  /\ persists = [p \in PostIds |-> 0]
  /\ failures = 0
  /\ left_behind = {}
  /\ recorded = EmptyMap
  /\ last_failure = NoFailure

\* the posts of the b-th run from its i-th on, which a pass that finds the
\* scheduler stopped (814, 826, 929) leaves as they are
Abandoned(rec, b, i) ==
  {rec.batches[b].posts[j].id : j \in i..Len(rec.batches[b].posts)}

\* ------------------------------------------- process_due_posts (880-945)
\* background_poster calls process_due_posts (2102), at its start and when the sleep
\* that ends a round (2129) is over.  Nobody else does, so the posting_lock is free.  A pass that finds the scheduler stopped, or nothing due,
\* returns; one whose rows have no .get raises AttributeError at the first row and
\* background_poster catches it (2126).
StartPass ==
  /\ poster.pc \in {"start", "loop_pause"}
  /\ passes < MaxPasses
  /\ passes' = passes + 1
  /\ now' = Max(now, poster.wake)
  /\ IF emergency_stopped
     THEN /\ poster' = AfterPass(poster, now')
          /\ UNCHANGED <<posting_lock, fetchedBy, fanoutBy, handed, first_failure,
                         bucketVars>>
     ELSE LET rows == Limited(Ordered(Due(now')))
              got == {rows[n].id : n \in 1..Len(rows)}
          IN  /\ fetchedBy' = [p \in DOMAIN fetchedBy |->
                                 IF p \in got THEN fetchedBy[p] \cup {passes + 1}
                                 ELSE fetchedBy[p]]
              /\ IF rows = <<>>
                 THEN Continue(AfterPass(poster, now'), passes + 1, current_rate, now')
                 ELSE IF ~row_has_get
                 THEN Continue(AfterRaise(poster, now'), passes + 1, current_rate, now')
                 ELSE Continue(EnterBatch([poster EXCEPT !.now_utc = now',
                                                         !.batches = Group(rows),
                                                         !.b = 1,
                                                         !.tasks = <<>>],
                                          skip_list, now'),
                               passes + 1, current_rate, now')
  /\ UNCHANGED <<governorRest, adaptAll, idleTicks, posts, channel_ids,
                 healthVars, emergency_stopped, row_has_get, persists, failures,
                 left_behind>>

\* asyncio.sleep(wait_seconds) before a run that is not yet due returns (936)
WakeBatchSleep ==
  /\ poster.pc = "batch_sleep"
  /\ now' = Max(now, poster.wake)
  /\ Continue(EnterSendBatch(poster, skip_list, now'), passes, current_rate, now')
  /\ left_behind' = IF emergency_stopped
                    THEN left_behind \cup Abandoned(poster, poster.b, 1)
                    ELSE left_behind
  /\ UNCHANGED <<governorRest, adaptAll, idleTicks, posts, channel_ids,
                 healthVars, emergency_stopped, row_has_get, passes, fetchedBy,
                 persists, failures>>

\* asyncio.sleep(1) after a run returns (945): on to the next run
WakeRunPause ==
  /\ poster.pc = "run_pause"
  /\ now' = Max(now, poster.wake)
  /\ Continue(EnterBatch([poster EXCEPT !.b = @ + 1], skip_list, now'),
              passes, current_rate, now')
  /\ left_behind' = IF emergency_stopped
                    THEN left_behind \cup
                           UNION {Abandoned(poster, b, 1) :
                                    b \in poster.b + 1..Len(poster.batches)}
                    ELSE left_behind
  /\ UNCHANGED <<governorRest, adaptAll, idleTicks, posts, channel_ids,
                 healthVars, emergency_stopped, row_has_get, passes, fetchedBy,
                 persists, failures>>

\* ----------------------------------------- send_post_to_channel (782-810)
\* the bot has delivered for the n-th task (800-802)
AttemptSucceeds(n) ==
  /\ poster.pc = "fanout"
  /\ n \in DOMAIN poster.tasks
  /\ poster.tasks[n].state = "send"
  /\ Success
  /\ RecordSuccess(poster.tasks[n].channel_id)
  /\ poster' = [poster EXCEPT !.tasks[n].state = "sent"]
  /\ UNCHANGED <<governorAtRest, last_flood_time, floods, now, idleTicks, posts,
                 channel_ids, emergency_stopped, posting_lock, row_has_get,
                 dispatchHist>>

\* what send_post_to_channel does with a TelegramError for destination c (804-810)
Failure(c, err) ==
  /\ IF IsFloodText(err)
     THEN FloodControl /\ UNCHANGED success_count
     ELSE UNCHANGED adaptAll
  /\ RecordFailure(c, err)

\* the bot has raised a TelegramError for the n-th task; at most MaxFailures attempts
\* of fan-outs fail (and their retries may)
AttemptFails(n, err) ==
  /\ poster.pc = "fanout"
  /\ failures < MaxFailures
  /\ failures' = failures + 1
  /\ n \in DOMAIN poster.tasks
  /\ poster.tasks[n].state = "send"
  /\ Failure(poster.tasks[n].channel_id, err)
  /\ poster' = [poster EXCEPT !.tasks[n].state = "failed"]
  /\ first_failure' = WithCount(first_failure,
                                <<PostOf(poster).id, poster.tasks[n].channel_id>>,
                                ClassifyError(err))
  /\ UNCHANGED <<governorAtRest, now, idleTicks, posts, channel_ids,
                 emergency_stopped, posting_lock, row_has_get, passes, fetchedBy,
                 fanoutBy, handed, persists, left_behind>>

\* -------------------------------- send_batch_to_all_channels (836-868)
Resolved(task) == task.state \in {"skipped", "sent", "failed"}

\* a gather that returns as soon as one of its tasks has
GatherAnyDone(tasks) == tasks = <<>> \/ \E n \in DOMAIN tasks : Resolved(tasks[n])

\* `results = await asyncio.gather(*tasks)` returns when every task has
GatherDone(tasks) == \A n \in DOMAIN tasks : Resolved(tasks[n])

\* a tally of the results instead of the successes
SuccessfulOrNot(tasks) == Len(tasks)

\* sum(results)
Successful(tasks) == Cardinality({n \in DOMAIN tasks : tasks[n].state = "sent"})

\* the pairs the loop over results (840-842) appends for tasks[n..]: the post with
\* self.channel_ids[idx] for every result that is not a success
RECURSIVE FailedPairs(_, _, _)
FailedPairs(tasks, n, post_id) ==
  IF n > Len(tasks) THEN <<>>
  ELSE (IF tasks[n].state = "sent" THEN <<>>
        ELSE <<[post_id |-> post_id, channel_id |-> channel_ids[n]]>>)
       \o FailedPairs(tasks, n + 1, post_id)

\* UPDATE posts SET posted = 1, posted_at = ?, successful_posts = ? WHERE id = ?
Persisted(table, p, successful, t) ==
  IF p \in DOMAIN table
  THEN [table EXCEPT ![p].posted = 1, ![p].posted_at = t,
                     ![p].successful_posts = successful]
  ELSE table

\* the loop over results (840-842) reads self.channel_ids[idx] for a result that is
\* not a success at an index the list no longer has: IndexError
RecordingRaises(tasks) ==
  \E n \in DOMAIN tasks : tasks[n].state # "sent" /\ n > Len(channel_ids)

\* gather returns: the failed pairs are noted, the post is persisted as delivered,
\* and the loop goes to the next post of the run; an IndexError in the noting leaves
\* the pass before the UPDATE, and background_poster catches it (2126)
FanOutDone ==
  /\ poster.pc = "fanout"
  /\ GatherDone(poster.tasks)
  /\ IF RecordingRaises(poster.tasks)
     THEN /\ UNCHANGED <<posts, persists>>
          /\ Continue(AfterRaise(poster, now), passes, current_rate, now)
     ELSE LET post == PostOf(poster)
          IN  /\ posts' = Persisted(posts, post.id, Successful(poster.tasks), now)
              /\ persists' = [persists EXCEPT ![post.id] = @ + 1]
              /\ Continue(EnterPost([poster EXCEPT
                                       !.failed_sends = @ \o FailedPairs(poster.tasks, 1, post.id),
                                       !.i = @ + 1,
                                       !.tasks = <<>>],
                                    skip_list, now),
                          passes, current_rate, now)
  /\ left_behind' = IF emergency_stopped
                    THEN left_behind \cup Abandoned(poster, poster.b, poster.i + 1)
                    ELSE left_behind
  /\ UNCHANGED <<governorRest, adaptAll, now, idleTicks, channel_ids, healthVars,
                 emergency_stopped, row_has_get, passes, fetchedBy, failures>>

\* the retry of the k-th failed pair is delivered; on to the next pair
RetrySucceeds ==
  /\ poster.pc = "retry_send"
  /\ LET c == poster.failed_sends[poster.k].channel_id
     IN  /\ Success
         /\ RecordSuccess(c)
         /\ Continue(NextRetry([poster EXCEPT !.k = @ + 1], skip_list \ {c}, now),
                     passes, current_rate', now)
  /\ UNCHANGED <<governorRest, last_flood_time, floods, now, idleTicks, posts,
                 channel_ids, emergency_stopped, row_has_get, passes, fetchedBy,
                 persists, failures,
                 left_behind>>

\* the retry of the k-th failed pair fails again; on to the next pair
RetryFails(err) ==
  /\ poster.pc = "retry_send"
  /\ LET c == poster.failed_sends[poster.k].channel_id
     IN  /\ Failure(c, err)
         /\ Continue(NextRetry([poster EXCEPT !.k = @ + 1],
                               SkipsAfterFailure(skip_list, c, err), now),
                     passes, current_rate', now)
  /\ UNCHANGED <<governorRest, now, idleTicks, posts, channel_ids,
                 emergency_stopped, row_has_get, passes, fetchedBy, persists,
                 failures, left_behind>>

\* ------------------------------------- stopall / resumeall (1625-1656)
StopAll ==
  /\ ~emergency_stopped
  /\ emergency_stopped' = TRUE
  /\ UNCHANGED <<governorAtRest, adaptAll, now, idleTicks, posts, channel_ids,
                 healthVars, posting_lock, row_has_get, poster, passes, fetchedBy,
                 fanoutBy, handed, first_failure, persists, failures, left_behind>>

ResumeAll ==
  /\ emergency_stopped
  /\ emergency_stopped' = FALSE
  /\ UNCHANGED <<governorAtRest, adaptAll, now, idleTicks, posts, channel_ids,
                 healthVars, posting_lock, row_has_get, poster, dispatchHist>>

\* ------------------------------------------- background_poster (2096-2129)
\* DELETE FROM posts WHERE posted = 1 AND posted_at < now - auto_cleanup_minutes
Cleaned(table, t) ==
  LET keep == {p \in DOMAIN table :
                 ~(/\ table[p].posted = 1
                   /\ table[p].posted_at < t - Sec(60 * AUTO_CLEANUP_MINUTES))}
  IN  [p \in keep |-> table[p]]

\* asyncio.sleep(sleep_duration) after a pass returns: every second round cleans the
\* table (2118-2121); then the sleep that ends the round (2129)
WakeLoopSleep ==
  /\ poster.pc = "loop_sleep"
  /\ now' = Max(now, poster.wake)
  /\ IF poster.cleanup_counter + 1 >= CLEANUP_ROUNDS
     THEN /\ posts' = Cleaned(posts, now')
          /\ poster' = [poster EXCEPT !.pc = "loop_pause", !.cleanup_counter = 0,
                                      !.wake = now' + Sec(LOOP_PAUSE_SEC)]
     ELSE /\ posts' = posts
          /\ poster' = [poster EXCEPT !.pc = "loop_pause", !.cleanup_counter = @ + 1,
                                      !.wake = now' + Sec(LOOP_PAUSE_SEC)]
  /\ UNCHANGED <<governorAtRest, adaptAll, idleTicks, channel_ids, healthVars,
                 emergency_stopped, posting_lock, row_has_get, dispatchHist>>

Next ==
  \/ StartPass
  \/ WakeBatchSleep
  \/ WakeRunPause
  \/ \E n \in Channels : AttemptSucceeds(n)
  \/ \E n \in Channels, err \in Errors : AttemptFails(n, err)
  \/ FanOutDone
  \/ RetrySucceeds
  \/ \E err \in Errors : RetryFails(err)
  \/ StopAll
  \/ ResumeAll
  \/ WakeLoopSleep

Spec == InitDispatch /\ [][Next]_vars

\* the steps of the event loop: it resumes background_poster when a sleep is over or
\* the bot has answered a call, whatever the answer; the operator's commands are not
\* among them
Resumed ==
  \/ StartPass
  \/ WakeBatchSleep
  \/ WakeRunPause
  \/ \E n \in Channels : AttemptSucceeds(n)
  \/ \E n \in Channels, err \in Errors : AttemptFails(n, err)
  \/ FanOutDone
  \/ RetrySucceeds
  \/ \E err \in Errors : RetryFails(err)
  \/ WakeLoopSleep

\* the dispatch with an event loop that resumes the coroutine whenever it can be
\* resumed: a sleep ends, and a call of the bot is answered (or times out)
SpecLive == InitDispatch /\ [][Next]_vars /\ WF_vars(Resumed)

\* ------------------------------------------------------ stop and resume
\* The scheduler with an operator who stops and resumes it at any moment and a bot
\* whose failures are all transient ('timed out').  Program is the steps of the
\* program, those of the event loop resuming background_poster when a sleep is
\* over or the bot has answered a call; the operator's commands are not among them.
Program ==
  \/ StartPass
  \/ WakeBatchSleep
  \/ WakeRunPause
  \/ \E n \in Channels : AttemptSucceeds(n)
  \/ \E n \in Channels : AttemptFails(n, {})
  \/ FanOutDone
  \/ RetrySucceeds
  \/ RetryFails({})
  \/ WakeLoopSleep

NextResume ==
  \/ Program
  \/ StopAll
  \/ ResumeAll

SpecResume == InitDispatch /\ [][NextResume]_vars

\* a step of the program can be taken: a sleep to wake from, a call for the bot
\* to answer, a gather to return from, a pass to start
ProgramEnabled ==
  \/ poster.pc \in {"start", "loop_pause"} /\ passes < MaxPasses
  \/ poster.pc \in {"batch_sleep", "run_pause", "loop_sleep", "fanout", "retry_send"}

\* a step of the program has been taken
ProgramStep == poster' # poster \/ passes' # passes

\* weak fairness of the steps of the program
LoopTreatedFairly == []<>(~ProgramEnabled) \/ []<><<ProgramStep>>_vars

\* ------------------------------------------------- the operator's commands
\* The scheduler with an operator who deletes and moves pending posts at any moment
\* (the handlers run on the event loop while background_poster is suspended) and a bot
\* whose failures are all transient.
\* the times a post is moved to: inside the look-ahead of the first pass, or beyond it
MoveTimes == {Sec(16), Sec(46)}

\* /deletepost n for a pending post (993-1011): DELETE FROM posts WHERE id = ?
DeletePost(p) ==
  /\ p \in DOMAIN posts
  /\ posts[p].posted = 0
  /\ posts' = [q \in DOMAIN posts \ {p} |-> posts[q]]
  /\ UNCHANGED <<governorAtRest, adaptAll, now, idleTicks, channel_ids, healthVars,
                 emergency_stopped, posting_lock, row_has_get, poster, dispatchHist>>

\* /movepost n time for a pending post (1013-1045): one post has no interval, so
\* UPDATE posts SET scheduled_time = new_start_time_utc WHERE id = ?
MovePost(p, t) ==
  /\ p \in DOMAIN posts
  /\ posts[p].posted = 0
  /\ posts' = [posts EXCEPT ![p].scheduled_time = t]
  /\ UNCHANGED <<governorAtRest, adaptAll, now, idleTicks, channel_ids, healthVars,
                 emergency_stopped, posting_lock, row_has_get, poster, dispatchHist>>

NextOperator ==
  \/ Program
  \/ \E p \in PostIds : DeletePost(p)
  \/ \E p \in PostIds, t \in MoveTimes : MovePost(p, t)

SpecOperator == InitDispatch /\ [][NextOperator]_vars

\* ---------------------------------------------------- errors in the loop
\* The scheduler left to itself, with a database that may fail (sqlite3.Error) where
\* background_poster uses it outside process_due_posts.  An error of the backup
\* refresh (2123-2124) comes after the cleanup is done and its counter reset, and
\* leaves the loop where a round without error does: at the sleep of line 2129.

\* get_next_scheduled_post (2104) raised when the pass had returned: no sleep until
\* the next post, no count of the round; the handler (2126) and the sleep of 2129
LookupRaises ==
  /\ poster.pc = "loop_sleep"
  /\ poster' = [poster EXCEPT !.pc = "loop_pause", !.wake = now + Sec(LOOP_PAUSE_SEC)]
  /\ UNCHANGED <<governorAtRest, adaptAll, now, idleTicks, posts, channel_ids,
                 healthVars, emergency_stopped, posting_lock, row_has_get,
                 dispatchHist>>

\* cleanup_posted_content (2119) raises: the round is counted (2117), the counter is
\* not reset (2120) and the table stays as it is
CleanupRaises ==
  /\ poster.pc = "loop_sleep"
  /\ poster.cleanup_counter + 1 >= CLEANUP_ROUNDS
  /\ now' = Max(now, poster.wake)
  /\ poster' = [poster EXCEPT !.pc = "loop_pause", !.cleanup_counter = @ + 1,
                              !.wake = now' + Sec(LOOP_PAUSE_SEC)]
  /\ UNCHANGED <<governorAtRest, adaptAll, idleTicks, posts, channel_ids, healthVars,
                 emergency_stopped, posting_lock, row_has_get, dispatchHist>>

NextLoop ==
  \/ Program
  \/ LookupRaises
  \/ CleanupRaises

SpecLoop == InitDispatch /\ [][NextLoop]_vars

\* ------------------------------------------- the operator's destinations
\* The scheduler with an operator who removes and adds destinations at any moment
\* (the handlers run on the event loop while background_poster is suspended, also in
\* the gather of a fan-out) and a bot whose failures are all transient.

\* the list without destination c, in the order it had
RECURSIVE Without(_, _)
Without(list, c) ==
  IF list = <<>> THEN <<>>
  ELSE (IF Head(list) = c THEN <<>> ELSE <<Head(list)>>) \o Without(Tail(list), c)

\* /removechannel c (740-750): DELETE FROM channels WHERE channel_id = ?, and
\* load_channels replaces self.channel_ids by the rows that are left (677)
RemoveChannel(c) ==
  /\ \E n \in DOMAIN channel_ids : channel_ids[n] = c
  /\ channel_ids' = Without(channel_ids, c)
  /\ UNCHANGED <<governorAtRest, adaptAll, now, idleTicks, posts, healthVars,
                 emergency_stopped, posting_lock, row_has_get, poster, dispatchHist>>

\* /addchannel c for a destination that is not in the table (693-702): the INSERT
\* adds a row after the others and load_channels replaces self.channel_ids (677)
AddChannel(c) ==
  /\ \A n \in DOMAIN channel_ids : channel_ids[n] # c
  /\ channel_ids' = Append(channel_ids, c)
  /\ UNCHANGED <<governorAtRest, adaptAll, now, idleTicks, posts, healthVars,
                 emergency_stopped, posting_lock, row_has_get, poster, dispatchHist>>

NextChannels ==
  \/ Program
  \/ \E c \in Channels : RemoveChannel(c)
  \/ \E c \in Channels : AddChannel(c)

SpecChannels == InitDispatch /\ [][NextChannels]_vars

\* ------------------------------------------ one run, one dead destination
\* RunPosts posts that resolve into one run (scheduled together, or a few seconds
\* later than now, with or without a batch_id), NumChannels destinations of which
\* the last answers every attempt with a permanent failure and the others deliver;
\* nobody stops the scheduler.
FailingDestination == NumChannels
RunTimes == {Sec(1), Sec(3)}

InitScenario ==
  /\ InitFresh
  /\ base_global_rate = RATE_LIMIT_GLOBAL * RateScale
  /\ burst_allowance = BURST_ALLOWANCE
  /\ \E tag \in Tags :
       posts \in [1..RunPosts -> [scheduled_time : RunTimes, batch_id : {tag},
                                  posted : {0}, posted_at : {NoTime},
                                  successful_posts : {0}]]
  /\ \A p, q \in 1..RunPosts : p < q => posts[p].scheduled_time <= posts[q].scheduled_time
  /\ channel_ids = [n \in 1..NumChannels |-> n]
  /\ skip_list = {}
  /\ consecutive_failures = EmptyMap
  /\ emergency_stopped = FALSE
  /\ posting_lock = FALSE
  /\ row_has_get \in BOOLEAN
  /\ poster = IdlePoster
  /\ passes = 0
  /\ fetchedBy = [p \in 1..RunPosts |-> {}]
  /\ fanoutBy = [p \in 1..RunPosts |-> {}]
  /\ handed = EmptyMap
  /\ first_failure = EmptyMap
  /\ persists = [p \in 1..RunPosts |-> 0]
  /\ failures = 0
  /\ left_behind = {}
  /\ recorded = EmptyMap
  /\ last_failure = NoFailure

NextScenario ==
  \/ StartPass
  \/ WakeBatchSleep
  \/ WakeRunPause
  \/ \E n \in Channels \ {FailingDestination} : AttemptSucceeds(n)
  \/ AttemptFails(FailingDestination, {"bot was kicked"})
  \/ FanOutDone
  \/ WakeLoopSleep

SpecScenario == InitScenario /\ [][NextScenario]_vars

\* ------------------------------------------------ the resolver's partition
\* Up to GroupPosts undelivered posts, each with the batch_id of a bulk or none,
\* scheduled now or 2, 4, 8 or 30 seconds later (ids in the order of the times), and
\* the first pass of the scheduler, which fetches them all and groups them.
GroupTimes == {Sec(1), Sec(3), Sec(5), Sec(9), Sec(31)}

InitResolve ==
  /\ InitFresh
  /\ base_global_rate = RATE_LIMIT_GLOBAL * RateScale
  /\ burst_allowance = BURST_ALLOWANCE
  /\ \E n \in 1..GroupPosts :
       /\ posts \in [1..n -> [scheduled_time : GroupTimes, batch_id : Tags,
                               posted : {0}, posted_at : {NoTime},
                               successful_posts : {0}]]
       /\ fetchedBy = [p \in 1..n |-> {}]
       /\ fanoutBy = [p \in 1..n |-> {}]
       /\ persists = [p \in 1..n |-> 0]
  /\ \A p, q \in DOMAIN posts : p < q => posts[p].scheduled_time <= posts[q].scheduled_time
  /\ channel_ids = [n \in 1..NumChannels |-> n]
  /\ skip_list = {}
  /\ consecutive_failures = EmptyMap
  /\ emergency_stopped = FALSE
  /\ posting_lock = FALSE
  /\ row_has_get \in BOOLEAN
  /\ poster = IdlePoster
  /\ passes = 0
  /\ handed = EmptyMap
  /\ first_failure = EmptyMap
  /\ failures = 0
  /\ left_behind = {}
  /\ recorded = EmptyMap
  /\ last_failure = NoFailure

NextResolve == StartPass

SpecResolve == InitResolve /\ [][NextResolve]_vars

\* ------------------------------------------- the classifier on its own
\* classify_error applied to any text, as record_failure does (256) and notes in
\* its history (261-266)
Classify(err) ==
  /\ last_failure' = [msg |-> err, type |-> ClassifyError(err)]
  /\ UNCHANGED <<governorAtRest, adaptAll, now, idleTicks, posts, channel_ids,
                 skip_list, consecutive_failures, recorded, emergency_stopped,
                 posting_lock, row_has_get, poster, dispatchHist>>

NextClassify == \E err \in Texts : Classify(err)

SpecClassify == InitAlone /\ [][NextClassify]_vars

\* --------------------------------------- the health tracker on its own
\* record_failure(d, err) and record_success(d) called in any order, for any
\* destination; a counter is followed up to MaxConsecutive
RecordFailureCall(d, err) ==
  /\ FailureCount(consecutive_failures, d) < MaxConsecutive
  /\ RecordFailure(d, err)
  /\ UNCHANGED <<governorAtRest, adaptAll, now, idleTicks, posts, channel_ids,
                 emergency_stopped, posting_lock, row_has_get, poster, dispatchHist>>

RecordSuccessCall(d) ==
  /\ RecordSuccess(d)
  /\ UNCHANGED <<governorAtRest, adaptAll, now, idleTicks, posts, channel_ids,
                 emergency_stopped, posting_lock, row_has_get, poster, dispatchHist>>

NextHealth ==
  \/ \E d \in Channels, err \in Errors : RecordFailureCall(d, err)
  \/ \E d \in Channels : RecordSuccessCall(d)

\* the tracker of the scheduler the program builds (570), nothing recorded
InitHealth ==
  /\ InitAlone
  /\ base_global_rate = RATE_LIMIT_GLOBAL * RateScale
  /\ burst_allowance = BURST_ALLOWANCE

SpecHealth == InitHealth /\ [][NextHealth]_vars

\* ======================================================== the rate governor
GlobalPhase == {t \in Tasks : pc[t] \in {"g_wait", "g_sleep"}}
ChatPhase == {t \in Tasks : pc[t] \in {"c_wait", "c_sleep"}}
Elapsed == now - start_time

\* C3: with current_rate fixed at R and burst B, the global acquisitions completed
\* within an interval of length t number at most B + R*t; here for the interval from
\* the governor's construction to now.
C3_RateBound ==
  (gDone - burst_allowance) * TicksPerSec * RateScale <= current_rate * Elapsed

\* C4: at 5 msg/s with burst 10 and a full bucket, 15 acquisitions across distinct
\* destinations take at least one second.
C4_FifteenTakeASecond ==
  (base_global_rate = 5 * RateScale /\ burst_allowance = 10 /\ aDone >= 15)
    => Elapsed >= TicksPerSec

\* C5: the global balance stays within [0, burst allowance] and every per-destination
\* balance within [0, per-destination capacity].
C5_BalancesInRange ==
  /\ 0 <= global_tokens
  /\ global_tokens <= burst_allowance * TokenScale
  /\ \A c \in DOMAIN chat_tokens :
       /\ 0 <= chat_tokens[c].tokens
       /\ chat_tokens[c].tokens <= per_chat_rate * TokenScale

\* a bucket refilled after idle time, and both kinds of bucket emptied by a suspension
C5_Witness ==
  /\ idleTicks > 0
  /\ gDone > burst_allowance
  /\ global_tokens = 0
  /\ \E c \in DOMAIN chat_tokens : chat_tokens[c].tokens = 0

\* C6: from a full bucket of B tokens the first B acquire_global calls do not suspend
\* (only a call after the B-th ever waits in acquire_global), and the (B+1)-th call,
\* issued with no time elapsed, is suspended in its sleep.
C6_BurstThenThrottle ==
  /\ \A t \in GlobalPhase : gOrd[t] > burst_allowance
  /\ (Elapsed = 0 /\ calls > burst_allowance) =>
        /\ gDone = burst_allowance
        /\ \E t \in Tasks :
             /\ pc[t] = "g_sleep"
             /\ gOrd[t] = burst_allowance + 1
             /\ wake[t] > now

C6_Witness ==
  /\ Elapsed = 0
  /\ calls > burst_allowance
  /\ \E t \in Tasks : pc[t] = "g_sleep"

\* C7 as claimed: the global token and the per-destination token of one acquire are
\* consumed atomically, so no state shows the one consumed without the other.
C7_AtomicConsumption == gDone = aDone

\* C7 as amended: acquire returns only after the caller has been through the global
\* section and then through the destination's section, each taking a token out of its
\* bucket; the two are separate steps, and a caller between them is suspended in
\* acquire_chat with only its global token consumed.
C7_TwoPhaseConsumption ==
  /\ [](/\ gDone = aDone + Cardinality(ChatPhase)
        /\ calls = gDone + Cardinality(GlobalPhase))
  /\ [][/\ gDone' = gDone + 1 =>
             global_tokens' <= (burst_allowance - 1) * TokenScale
        /\ aDone' = aDone + 1 =>
             \E c \in DOMAIN chat_tokens' :
                /\ chat_tokens'[c].last = now
                /\ chat_tokens'[c].tokens <= (per_chat_rate - 1) * TokenScale]_vars

\* a caller holding its global token waits for the lock of its destination
C7_Witness == \E t \in Tasks : pc[t] = "c_wait"

C9_RateWithinBounds ==
  /\ current_rate <= base_global_rate
  /\ floods > 0 => current_rate >= MIN_SAFETY_RATE * RateScale

\* C10: a success report raises current_rate only when at least 50 successes were
\* reported since the most recent rate-limit signal or recovery step and more than
\* the recovery delay has passed since the most recent signal; that step resets the
\* counter and clears the degraded flag exactly when the ceiling is reached.
C10_RecoveryOnlyAfterFiftySuccesses ==
  [][(success_count' # success_count /\ current_rate' > current_rate) =>
        /\ sinceSignal + 1 >= RECOVERY_SUCCESSES
        /\ now - last_flood_time >= RECOVERY_DELAY_SEC * TicksPerSec
        /\ success_count' = 0
        /\ flood_detected' = (current_rate' < base_global_rate)]_vars

\* ======================================================= the dispatch engine
Delivered(p) == p \in DOMAIN posts /\ posts[p].posted = 1

\* C1: through any passes of process_due_posts interleaved with stopall and resumeall,
\* the delivered flag of a post goes from false to true at most once (it is written
\* once and never goes back), a post already delivered is neither fetched nor fanned
\* out again, and no post is fanned out by two different passes.
C1_DeliveredOnce ==
  /\ [](\A p \in PostIds :
          /\ persists[p] <= 1
          /\ Cardinality(fanoutBy[p]) <= 1)
  /\ [][\A p \in PostIds :
          /\ (Delivered(p) /\ p \in DOMAIN posts') => posts'[p].posted = 1
          /\ (fetchedBy'[p] # fetchedBy[p] \/ fanoutBy'[p] # fanoutBy[p]) =>
                ~Delivered(p)]_vars

\* a pass stopped after the first post of its run; the second post, fetched by that
\* pass and left undelivered, is fetched again and fanned out by the next pass, which
\* does not fetch the first
C1_Witness ==
  \E p, q \in PostIds :
    /\ Delivered(p) /\ fetchedBy[p] = {1} /\ fanoutBy[p] = {1}
    /\ Delivered(q) /\ fetchedBy[q] = {1, 2} /\ fanoutBy[q] = {2}

\* the tasks of the fan-out in progress stand one for one for the destinations
TasksCoverChannels ==
  /\ Len(poster.tasks) = Len(channel_ids)
  /\ \A n \in DOMAIN poster.tasks : poster.tasks[n].channel_id = channel_ids[n]

\* post p is persisted as delivered in this step
PersistStep(p) == persists'[p] = persists[p] + 1

\* C2 as claimed: a post is persisted as delivered only after every active destination
\* has been attempted for it, that is handed to the bot, and the attempt has resolved.
C2_AllDestinationsAttempted ==
  [][\A p \in PostIds : PersistStep(p) =>
        /\ poster.pc = "fanout" /\ PostOf(poster).id = p
        /\ TasksCoverChannels
        /\ \A n \in DOMAIN poster.tasks : poster.tasks[n].state \in {"sent", "failed"}]_vars

\* C2 as amended: a post is persisted as delivered, and its flag set, only in the step
\* in which the gather over its fan-out returns: every destination has its task, every
\* task has resolved, none is in flight; a destination on the skip list when the
\* fan-out began has resolved at once without being handed to the bot, any other was
\* handed to the bot and has succeeded or failed.
C2_AllTasksResolved ==
  [][\A p \in PostIds :
       /\ PersistStep(p) =>
            /\ poster.pc = "fanout" /\ PostOf(poster).id = p
            /\ TasksCoverChannels
            /\ \A n \in DOMAIN poster.tasks :
                 poster.tasks[n].state \in {"skipped", "sent", "failed"}
            /\ p \in DOMAIN posts =>
                 posts'[p].successful_posts =
                   Cardinality({n \in DOMAIN poster.tasks : poster.tasks[n].state = "sent"})
       /\ (p \in DOMAIN posts /\ p \in DOMAIN posts' /\ posts'[p].posted # posts[p].posted)
            => PersistStep(p)]_vars

\* a post was persisted after one of its destinations had failed and another had been
\* skipped or had succeeded
C2_Witness ==
  \E p \in PostIds :
    /\ Delivered(p)
    /\ persists[p] = 1
    /\ posts[p].successful_posts < Len(channel_ids)
    /\ \E j \in DOMAIN poster.failed_sends : poster.failed_sends[j].post_id = p
    /\ failures > 0

\* ------------------------------------------------------- the health tracker
\* the text has one of the phrases, in lower case or not
Matches(err, phrases) == \E w \in err : Lower(w) \in phrases

\* the most recent call recorded for destination d
Recorded(d) == IF d \in DOMAIN recorded THEN recorded[d] ELSE "none"

\* C11: classify_error gives every error text exactly one of permanent, rate_limit
\* and temporary: permanent whenever a permanent phrase occurs in the text, also
\* when a rate-limit phrase occurs too; rate_limit when only rate-limit phrases
\* occur; temporary when none occurs.
C11_ClassifyPriority ==
  last_failure # NoFailure =>
    /\ last_failure.type \in {"permanent", "rate_limit", "temporary"}
    /\ Matches(last_failure.msg, PermanentPhrases) => last_failure.type = "permanent"
    /\ (/\ ~Matches(last_failure.msg, PermanentPhrases)
        /\ Matches(last_failure.msg, RateLimitPhrases)) => last_failure.type = "rate_limit"
    /\ (/\ ~Matches(last_failure.msg, PermanentPhrases)
        /\ ~Matches(last_failure.msg, RateLimitPhrases)) => last_failure.type = "temporary"

\* a text with a permanent phrase and a rate-limit phrase has been classified
C11_Witness ==
  /\ Matches(last_failure.msg, PermanentPhrases)
  /\ Matches(last_failure.msg, RateLimitPhrases)
  /\ "Flood" \in last_failure.msg
  /\ last_failure.type = "permanent"

\* C12 as claimed: should_skip(d) is true if and only if the most recent call
\* recorded for d is a failure classified permanent.
C12_SkipIffLastPermanent ==
  \A d \in Channels : ShouldSkip(skip_list, d) <=> Recorded(d) = "permanent"

\* C12: should_skip(d) is true if and only if a permanent failure has been recorded
\* for d and no success since: it is true when the most recent call recorded for d
\* is a permanent failure, false when it is a success or there is none, and a
\* failure that is not permanent leaves it as it was.
C12_SkipSincePermanent ==
  /\ [](\A d \in Channels :
          /\ Recorded(d) = "permanent" => ShouldSkip(skip_list, d)
          /\ Recorded(d) \in {"none", "success"} => ~ShouldSkip(skip_list, d))
  /\ [][\A d \in Channels :
          (/\ d \in DOMAIN recorded'
           /\ recorded'[d] \in {"rate_limit", "temporary"})
          => (ShouldSkip(skip_list', d) <=> ShouldSkip(skip_list, d))]_vars

\* a destination is skipped whose most recent failure is not permanent
C12_Witness ==
  \E d \in Channels :
    /\ ShouldSkip(skip_list, d)
    /\ Recorded(d) = "temporary"
    /\ FailureCount(consecutive_failures, d) = 1

\* ----------------------------------------------- skipped destinations
\* an attempt to destination d is with the Sender
InFlight(d) ==
  \/ /\ poster.pc = "fanout"
     /\ \E n \in DOMAIN poster.tasks :
          poster.tasks[n].channel_id = d /\ poster.tasks[n].state = "send"
  \/ /\ poster.pc = "retry_send"
     /\ poster.failed_sends[poster.k].channel_id = d

\* C13: while a destination is on the skip list no attempt to it is with the
\* Sender, neither of a fan-out nor of a retry pass, in the run that recorded the
\* permanent failure or in a later one.
C13_SkippedNeverSent ==
  \A d \in Channels : d \in skip_list => ~InFlight(d)

\* a fan-out goes on to the other destinations while one is skipped
C13_Witness ==
  /\ poster.pc = "fanout"
  /\ \E n, m \in DOMAIN poster.tasks :
       /\ poster.tasks[n].state = "skipped"
       /\ poster.tasks[n].channel_id \in skip_list
       /\ Recorded(poster.tasks[n].channel_id) = "permanent"
       /\ poster.tasks[m].state = "send"

\* the pair (post, destination) is in the failure list of the run
InFailedSends(rec, p, d) ==
  \E j \in DOMAIN rec.failed_sends :
    rec.failed_sends[j] = [post_id |-> p, channel_id |-> d]

\* C14 as claimed: when the gather of a fan-out returns, a destination that was
\* skipped in it is not put on the failure list of the run with the post, and its
\* failure counter and the skip list are as they were.
C14_SkippedNotFailed ==
  [][\A n \in DOMAIN poster.tasks :
       (/\ poster.pc = "fanout"
        /\ poster.tasks[n].state = "skipped"
        /\ PersistStep(PostOf(poster).id))
       => /\ ~InFailedSends(poster', PostOf(poster).id, poster.tasks[n].channel_id)
          /\ consecutive_failures' = consecutive_failures
          /\ skip_list' = skip_list]_vars

\* C15: when send_batch_to_all_channels has returned from a run of posts of which
\* one destination failed every attempt permanently and the others delivered,
\* every post is delivered with a tally of one less than the destinations (1 of 2)
\* and the failing destination is on the skip list.
C15_ScenarioOutcome ==
  poster.pc = "run_pause" =>
    /\ \A p \in DOMAIN posts :
         Delivered(p) /\ posts[p].successful_posts = Len(channel_ids) - 1
    /\ ShouldSkip(skip_list, channel_ids[FailingDestination])

\* the run has been dispatched: the first post to all destinations, the others
\* to all but the failing one
C15_Witness ==
  /\ poster.pc = "run_pause"
  /\ Cardinality(DOMAIN posts) = RunPosts
  /\ \A p \in DOMAIN posts :
       /\ Delivered(p) /\ posts[p].successful_posts = Len(channel_ids) - 1
       /\ fanoutBy[p] = {1}
  /\ skip_list = {channel_ids[FailingDestination]}
  /\ failures = 1
  /\ aDone = Len(channel_ids) + (RunPosts - 1) * (Len(channel_ids) - 1)

\* ------------------------------------------------------------ grouping
\* the resolver has partitioned the posts of the table into the runs of poster.batches
Partitioned == poster.pc \in {"fanout", "batch_sleep"} /\ poster.batches # <<>>

\* the ids of the posts of the b-th run
RunIds(b) ==
  IF b \in DOMAIN poster.batches
  THEN {poster.batches[b].posts[j].id : j \in DOMAIN poster.batches[b].posts}
  ELSE {}

SameRun(p, q) == \E b \in DOMAIN poster.batches : p \in RunIds(b) /\ q \in RunIds(b)

\* two posts carry the same batch_id, and it is not null
SharedTag(p, q) == posts[p].batch_id # NoTag /\ posts[p].batch_id = posts[q].batch_id

\* C16 as claimed: two posts adjacent in schedule order that share no batch tag are
\* in the same run if and only if the later is scheduled within 5 s of the one
\* before it.
C16_GapFromPreceding ==
  Partitioned =>
    \A p, q \in DOMAIN posts :
      (q = p + 1 /\ ~SharedTag(p, q)) =>
        (SameRun(p, q) <=>
           posts[q].scheduled_time - posts[p].scheduled_time <= Sec(GROUP_GAP_SEC))

\* C17 as claimed: two posts adjacent in schedule order that carry the same
\* non-null batch tag are in the same run, whatever the gap between them and
\* whichever post opened the run.
C17_TagOverProximity ==
  Partitioned =>
    \A p, q \in DOMAIN posts : (q = p + 1 /\ SharedTag(p, q)) => SameRun(p, q)

\* four untagged posts at T, T + 2 s, T + 4 s and T + 30 s
FourPosts ==
  /\ DOMAIN posts = 1..4
  /\ \A p \in DOMAIN posts : posts[p].batch_id = NoTag
  /\ posts[2].scheduled_time = posts[1].scheduled_time + Sec(2)
  /\ posts[3].scheduled_time = posts[1].scheduled_time + Sec(4)
  /\ posts[4].scheduled_time = posts[1].scheduled_time + Sec(30)

\* C18: four untagged posts scheduled at T, T + 2 s, T + 4 s and T + 30 s are
\* partitioned into exactly two runs, the first three posts and the fourth.
C18_TwoRuns ==
  (FourPosts /\ Partitioned) =>
    /\ Len(poster.batches) = 2
    /\ RunIds(1) = {1, 2, 3}
    /\ RunIds(2) = {4}
    /\ Len(poster.batches[1].posts) = 3
    /\ Len(poster.batches[2].posts) = 1

C18_Witness ==
  /\ FourPosts
  /\ Partitioned
  /\ Len(poster.batches) = 2
  /\ poster.batches[1].time = posts[1].scheduled_time
  /\ poster.batches[2].time = posts[4].scheduled_time
  /\ fetchedBy = [p \in 1..4 |-> {1}]

\* ------------------------------------------------------ emergency stop
\* the fan-out of post p is in progress
FanningOut(p) == poster.pc = "fanout" /\ PostOf(poster).id = p

\* C19: in a step taken while the emergency-stop flag is set no post is fetched and
\* no fan-out begins, and a post is marked delivered only if its fan-out was in
\* progress; a pass begun then returns at once, the run the resolver was sleeping
\* for is abandoned, and the rest of a run in progress is left undelivered.
C19_StoppedStartsNothing ==
  [][emergency_stopped =>
       /\ fetchedBy' = fetchedBy
       /\ fanoutBy' = fanoutBy
       /\ \A p \in PostIds :
            /\ PersistStep(p) => FanningOut(p)
            /\ (p \in DOMAIN posts /\ p \in DOMAIN posts' /\ ~FanningOut(p))
               => posts'[p] = posts[p]
       /\ passes' # passes => poster'.pc = "loop_sleep"
       /\ (poster.pc = "batch_sleep" /\ poster' # poster) => poster'.pc = "run_pause"
       /\ (poster.pc = "fanout" /\ poster'.pc = "fanout") => poster'.i = poster.i]_vars

\* the post of the current run that a stop has left behind
LeftBehind(p) ==
  /\ emergency_stopped
  /\ poster.pc = "run_pause"
  /\ p \in RunIds(poster.b)
  /\ p \in DOMAIN posts
  /\ posts[p].posted = 0
  /\ fanoutBy[p] = {}

\* a stop during the fan-out of the first post of a run of two: the first is
\* delivered, the second left
C19_Witness ==
  \E p, q \in PostIds :
    /\ Delivered(p)
    /\ fanoutBy[p] = {passes}
    /\ p \in RunIds(poster.b)
    /\ LeftBehind(q)
    /\ passes \in fetchedBy[q]

\* the post has been marked delivered by a later pass than the one that first
\* fetched it
DeliveredLater(p) == Delivered(p) /\ Cardinality(fetchedBy[p]) >= 2

\* a stop has made a pass leave the post unmarked, and the operator has resumed
\* while a pass is still to come
LeftAndResumed(p) ==
  /\ p \in left_behind
  /\ p \in DOMAIN posts
  /\ posts[p].posted = 0
  /\ ~emergency_stopped
  /\ passes < MaxPasses

\* C20: with the scheduling loop treated fairly, a post that an emergency stop has
\* made a pass leave unmarked is, after the operator has resumed, fetched again by
\* a later pass and eventually marked delivered, unless the operator stops the
\* scheduler again.
C20_ResumedDelivers ==
  LoopTreatedFairly =>
    \A p \in PostIds : LeftAndResumed(p) ~> (DeliveredLater(p) \/ emergency_stopped)

\* the post left behind by the first pass has been delivered by the second
C20_Witness ==
  \E p \in PostIds :
    /\ Delivered(p)
    /\ p \in left_behind
    /\ fetchedBy[p] = {1, 2}
    /\ fanoutBy[p] = {2}
    /\ \E q \in PostIds : Delivered(q) /\ fanoutBy[q] = {1}
    /\ ~emergency_stopped

\* ProgramEnabled and ProgramStep say what they are meant to
ProgramEnabledRight ==
  /\ [](ProgramEnabled <=> ENABLED Program)
  /\ [][ProgramStep <=> Program]_vars


\* ================================================================ the retry pass
\* the j-th pair of failed_sends
Pair(rec, j) == <<rec.failed_sends[j].post_id, rec.failed_sends[j].channel_id>>

\* how often a pair of the run in hand has been handed on towards the bot
Handed(x) == FailureCount(handed, x)

\* C21: while the retry loop of a run is at work every post of the run has been
\* fanned out by this pass and persisted as delivered; the pair being retried is in
\* its second attempt, the pairs before it have had two attempts unless their
\* destination is on the skip list, the pairs after it have had at most one; and no
\* pair of a run is handed on more than twice.
C21_OneRetryPerFailedPair ==
  /\ \A x \in DOMAIN handed : handed[x] <= 2
  /\ poster.pc = "retry_send" =>
       /\ \A p \in RunIds(poster.b) :
            Delivered(p) /\ passes \in fanoutBy[p] /\ persists[p] >= 1
       /\ \A j \in DOMAIN poster.failed_sends :
            /\ j < poster.k =>
                 \/ Handed(Pair(poster, j)) = 2
                 \/ poster.failed_sends[j].channel_id \in skip_list
            /\ j = poster.k => Handed(Pair(poster, j)) = 2
            /\ j > poster.k => Handed(Pair(poster, j)) <= 1

\* a run of two posts or more is in its retry loop, at a pair in its second attempt
C21_Witness ==
  /\ poster.pc = "retry_send"
  /\ Cardinality(RunIds(poster.b)) >= 2
  /\ Handed(Pair(poster, poster.k)) = 2

\* the retry of a pair comes to its outcome
RetryOutcome == poster.pc = "retry_send" /\ poster' # poster

\* the destination of the pair being retried
RetriedChannel == poster.failed_sends[poster.k].channel_id

\* report_success has been called in the step (800): it always moves success_count
Succeeded == success_count' # success_count

\* the last outcome recorded for d once the step is taken
RecordedAfter(d) == IF d \in DOMAIN recorded' THEN recorded'[d] ELSE "none"

\* C22: the outcome of a retry goes to the health tracker and leaves the posts table
\* as it is: after a retry that succeeds the destination's counter is 0 and the
\* destination is off the skip list; after one that fails the failure is recorded
\* with its classification, the counter is one higher unless the failure is
\* transient, and the destination is on the skip list iff the failure is permanent;
\* either way no row of the table (delivered flag, posted_at, tally) changes.
C22_RetryLeavesRowAlone ==
  [][RetryOutcome =>
       LET c == RetriedChannel
       IN  /\ posts' = posts
           /\ persists' = persists
           /\ IF Succeeded
              THEN /\ FailureCount(consecutive_failures', c) = 0
                   /\ c \notin skip_list'
                   /\ RecordedAfter(c) = "success"
              ELSE /\ RecordedAfter(c) \in {"permanent", "rate_limit", "temporary"}
                   /\ last_failure'.type = RecordedAfter(c)
                   /\ FailureCount(consecutive_failures', c) =
                        FailureCount(consecutive_failures, c) +
                          (IF RecordedAfter(c) = "temporary" THEN 0 ELSE 1)
                   /\ c \in skip_list' <=> RecordedAfter(c) = "permanent"]_vars

\* a run of one post whose attempt at one destination failed with a rate-limit error
\* has been through its retry loop: the retry succeeded (the counter is back at 0 and
\* every destination's last outcome is a success) and the row still has the tally of
\* the fan-out, one short
C22_Witness ==
  /\ poster.pc = "run_pause"
  /\ failures = 1
  /\ floods = 1
  /\ \E p \in DOMAIN posts :
       /\ RunIds(poster.b) = {p}
       /\ Delivered(p)
       /\ posts[p].successful_posts = Len(channel_ids) - 1
  /\ \A c \in Channels : Recorded(c) = "success" /\ FailureCount(consecutive_failures, c) = 0

\* C23: a pair of the run whose attempt in the fan-out failed with a permanent error
\* has its destination on the skip list from that failure on, is not the pair the
\* retry loop is sending, and has been handed on towards the bot that once only.
C23_PermanentNotRetried ==
  \A x \in DOMAIN first_failure :
    first_failure[x] = "permanent" =>
      /\ x[2] \in skip_list
      /\ Handed(x) = 1
      /\ ~(poster.pc = "retry_send" /\ Pair(poster, poster.k) = x)

\* a run that nobody stopped is over, retry loop included, and a pair of it failed
\* permanently in the fan-out
C23_Witness ==
  /\ poster.pc = "run_pause"
  /\ ~emergency_stopped
  /\ \E x \in DOMAIN first_failure :
       first_failure[x] = "permanent" /\ Handed(x) = 1 /\ x[2] \in skip_list

\* ============================================================ failed attempts
\* an attempt comes to a failure in the step: one of a fan-out or one of a retry
AttemptFailed == failures' # failures \/ (RetryOutcome /\ ~Succeeded)

\* report_flood_control has been called in the step
Signalled == floods' # floods

\* C24: a failed attempt signals the governor (report_flood_control) if and only if
\* the health tracker classifies the error of that attempt as rate-limited.
C24_SignalIffRateLimited ==
  [][AttemptFailed => (Signalled <=> last_failure'.type = "rate_limit")]_vars

\* ========================================================== the health tracker
\* C25: a step that is record_failure(d, err) changes the tracker by the
\* classification of err only: a transient error leaves the counters and the skip
\* list as they are, a rate-limited one adds 1 to d's counter and leaves the skip
\* list, a permanent one adds 1 to d's counter and puts d on the skip list; the
\* counter and the skip-list membership of every other destination stay.
C25_FailureByClassification ==
  [][\A d \in Channels, err \in Errors :
       RecordFailure(d, err) =>
         LET type == ClassifyError(err)
             before == FailureCount(consecutive_failures, d)
             after == FailureCount(consecutive_failures', d)
         IN  /\ type = "temporary" =>
                  consecutive_failures' = consecutive_failures /\ skip_list' = skip_list
             /\ type = "rate_limit" => after = before + 1 /\ skip_list' = skip_list
             /\ type = "permanent" => after = before + 1 /\ skip_list' = skip_list \cup {d}
             /\ \A c \in Channels \ {d} :
                  /\ c \in DOMAIN consecutive_failures' <=> c \in DOMAIN consecutive_failures
                  /\ FailureCount(consecutive_failures', c) =
                       FailureCount(consecutive_failures, c)
                  /\ c \in skip_list' <=> c \in skip_list]_vars

\* one destination has had a rate-limited and a permanent failure (counter 2, on the
\* skip list), another a transient one only (no counter, not on the list)
C25_Witness ==
  \E d, c \in Channels :
    /\ FailureCount(consecutive_failures, d) = 2
    /\ d \in skip_list
    /\ Recorded(c) = "temporary"
    /\ c \notin DOMAIN consecutive_failures
    /\ c \notin skip_list

\* C26: needs_alert(d) holds in the states where d's counter is 5 or more; it
\* becomes true in a step that records a failure for d and takes the counter from 4
\* to 5, becomes false only in a step that records a success for d, and is false
\* after every record_success(d).
C26_AlertAtThreshold ==
  /\ [](\A d \in Channels :
          NeedsAlert(consecutive_failures, d) <=>
            FailureCount(consecutive_failures, d) >= 5)
  /\ [][\A d \in Channels :
          /\ (~NeedsAlert(consecutive_failures, d) /\ NeedsAlert(consecutive_failures', d)) =>
               /\ RecordedAfter(d) \in {"permanent", "rate_limit"}
               /\ FailureCount(consecutive_failures, d) = 4
               /\ FailureCount(consecutive_failures', d) = 5
          /\ (NeedsAlert(consecutive_failures, d) /\ ~NeedsAlert(consecutive_failures', d)) =>
               RecordedAfter(d) = "success"
          /\ RecordSuccess(d) => ~NeedsAlert(consecutive_failures', d)]_vars

\* a destination at the threshold needs an alert, one a failure short of it does not
C26_Witness ==
  \E d, c \in Channels :
    /\ FailureCount(consecutive_failures, d) = ALERT_THRESHOLD
    /\ NeedsAlert(consecutive_failures, d)
    /\ FailureCount(consecutive_failures, c) = ALERT_THRESHOLD - 1
    /\ ~NeedsAlert(consecutive_failures, c)

\* an attempt has ended by raising out of send_post_to_channel
AttemptRaised == \E n \in DOMAIN poster.tasks : poster.tasks[n].state = "raised"

\* C27: no attempt ends by raising: whatever goes wrong while a (post, destination)
\* pair is delivered stays inside the attempt, which resolves as a failure, and the
\* pass goes on with what is left of the run and of its runs.
C27_AttemptErrorsContained == ~AttemptRaised

\* ======================================================== the operator's moves
\* a post is fanned out under the scheduled_time its row has in the table, by a pass
\* whose look-ahead reaches that time
AtTimeOfTable(p) ==
  /\ PostOf(poster).scheduled_time = posts[p].scheduled_time
  /\ posts[p].scheduled_time <= poster.now_utc + Sec(FETCH_WINDOW_SEC)

\* C28: when the fan-out of a post begins, the post is dispatched according to the
\* scheduled_time it has in the table then, whenever the operator has moved it
\* before, and not according to a time it had earlier.
C28_DispatchedAtNewTime ==
  [][\A p \in DOMAIN posts :
       (~FanningOut(p) /\ FanningOut(p)') => AtTimeOfTable(p)']_vars

\* ======================================================= the scheduling loop
\* the positions of background_poster: all of them inside its `while True`
LoopPositions ==
  {"start", "batch_sleep", "fanout", "retry_send", "run_pause", "loop_sleep",
   "loop_pause"}

\* C29: background_poster is never outside its loop, an error or none; the sleep
\* that follows a round, and so an error, is over within 5 s; and if the event loop
\* resumes the coroutine whenever it can be resumed, every pass is followed by another
\* (as far as the passes are counted).
C29_LoopSurvivesErrors ==
  /\ [](poster.pc \in LoopPositions)
  /\ [](poster.pc = "loop_pause" => poster.wake <= now + Sec(LOOP_PAUSE_SEC))
  /\ LoopTreatedFairly => \A n \in 0..MaxPasses - 1 : (passes = n) ~> (passes = n + 1)

\* a pass has raised at its first row (the rows have no .get), or a cleanup has
\* raised (its counter is past the round of the cleanup), and a later pass has run
C29_Witness ==
  /\ passes = MaxPasses
  /\ \/ ~row_has_get /\ \E p \in PostIds : 1 \in fetchedBy[p]
     \/ poster.cleanup_counter >= CLEANUP_ROUNDS

\* clamp(x, lo, hi)
Clamp(x, lo, hi) == Min(Max(x, lo), hi)

\* the sleep the loop owes after a pass that ended at time t
OwedSleep(t) ==
  IF NextScheduled = NoTime THEN Sec(LOOP_IDLE_SEC)
  ELSE Clamp(NextScheduled - t - Sec(LOOP_LEAD_SEC), Sec(LOOP_MIN_SEC), Sec(LOOP_MAX_SEC))

\* after a pass the loop sleeps clamp(time_until_next - 2, 1, 15) seconds if a post
\* is waiting and 10 s if none is
SleepsOwedTime == poster.pc = "loop_sleep" => poster.wake = now + OwedSleep(now)

\* C30: between the end of a pass and the start of the next the loop is idle for
\* exactly that sleep: it sleeps that long, and when the sleep is over nothing
\* stands between the loop and its next pass.
C30_IdleIsTheSleep ==
  /\ []SleepsOwedTime
  /\ [][(poster.pc = "loop_sleep" /\ poster'.pc = "loop_pause") =>
          poster'.wake = poster.wake]_vars


\* ------------------------------------------------------------------ C31
\* The run the pass is at: its nominal time is the scheduled_time of its first post
\* (905, 914, 925).
BatchTime == poster.batches[poster.b].time

\* C31: a run is never dispatched before its nominal time.  While the pass sleeps
\* before a run, the run is ahead by at most 30 s and the sleep ends at its nominal
\* time; only a run that is ahead sleeps (a run already due is dispatched without
\* waiting); and whenever posts of a run are being attempted, the run's nominal time
\* has been reached.
C31_NotBeforeNominalTime ==
  /\ poster.pc = "batch_sleep" =>
       /\ BatchTime > now
       /\ BatchTime - now <= Sec(MAX_WAIT_SEC)
       /\ poster.wake = BatchTime
  /\ poster.pc \in {"fanout", "retry_send"} => now >= BatchTime

\* a run that was ahead when the pass fetched it is being fanned out, at its time
C31_Witness ==
  /\ poster.pc = "fanout"
  /\ poster.now_utc < BatchTime
  /\ now = BatchTime


\* ------------------------------------------------------------------ C32
\* the place of post p in the run in hand
PosInRun(p) ==
  CHOOSE n \in DOMAIN poster.batches[poster.b].posts :
    poster.batches[poster.b].posts[n].id = p

\* the coroutine arrives, in the step, where attempts begin (834 or 865)
Arrives ==
  /\ poster'.pc \in {"fanout", "retry_send"}
  /\ <<poster.pc, poster.b, poster.i, poster.k>> #
       <<poster'.pc, poster'.b, poster'.i, poster'.k>>

\* the post of the pair being retried
RetriedPost == poster.failed_sends[poster.k].post_id

\* post q of the run has been delivered to d by its fan-out: the pair went on to
\* the bot and has no failure noted
DeliveredInFanOut(q, d) ==
  /\ <<q, d>> \in DOMAIN handed
  /\ <<q, d>> \notin DOMAIN first_failure

\* the fan-outs of a run go in run order: while post i is fanned out no attempt of
\* a later post of the run has begun, and the posts before it are persisted and
\* their attempts have their outcomes
FanOutInRunOrder ==
  poster.pc = "fanout" =>
    /\ \A x \in DOMAIN handed :
         /\ x[1] \in RunIds(poster.b)
         /\ PosInRun(x[1]) <= poster.i
         /\ PosInRun(x[1]) < poster.i => Recorded(x[2]) # "none"
    /\ \A n \in 1..(poster.i - 1) :
         LET p == poster.batches[poster.b].posts[n].id
         IN  Delivered(p) /\ persists[p] >= 1

\* every attempt that goes on to the bot has acquired for its destination: the
\* acquisitions completed in a step are those of the attempts that begin in it
AcquiredFirst ==
  aDone' - aDone = IF Arrives THEN Cardinality(Attempted(poster')) ELSE 0

\* the original sentence on what a destination receives: no post of a run is
\* delivered to a destination that has already received a later post of the run
C32_ReceivedInRunOrder ==
  [][RetryOutcome /\ Succeeded =>
       ~\E q \in RunIds(poster.b) :
          /\ PosInRun(q) > PosInRun(RetriedPost)
          /\ DeliveredInFanOut(q, RetriedChannel)]_vars

\* C32 (as amended): within a run the fan-outs go strictly in run order (every
\* attempt of the fan-out of post i has its outcome and post i is persisted before
\* any attempt for post i+1 begins), every attempt acquires for its destination
\* before it goes on to the bot, and a delivery by the retry loop comes after the
\* fan-out of every post of the run, so a destination can receive a retried post
\* after the later posts of its run.
C32_FanOutInRunOrder ==
  /\ []FanOutInRunOrder
  /\ [][AcquiredFirst]_vars
  /\ [][RetryOutcome => \A p \in RunIds(poster.b) : Delivered(p)]_vars

\* the second post of a run is fanned out after an attempt for the first has failed
C32_Witness ==
  /\ poster.pc = "fanout"
  /\ poster.i = 2
  /\ \E n \in DOMAIN poster.tasks : poster.tasks[n].state = "send"
  /\ poster.failed_sends # <<>>


\* ------------------------------------------------------------------ C33
\* the operator's stop is not set for ever
StopNotForEver == []<>(~emergency_stopped)

\* C33: with an event loop that resumes the coroutine whenever it can be resumed, if
\* the stop is not set for ever, every post a pass has fetched as due is marked
\* delivered in the end, whatever the outcomes at the destinations (a post that a
\* stop has made the pass leave behind is for a later pass).
C33_DueEventuallyDelivered ==
  StopNotForEver =>
    \A p \in PostIds :
      [](fetchedBy[p] # {} => <>(Delivered(p) \/ p \in left_behind))

\* the same of the rows that are mappings, as the code takes them to be
DeliveredIfRowsHaveGet ==
  (StopNotForEver /\ row_has_get) =>
    \A p \in PostIds :
      [](fetchedBy[p] # {} => <>(Delivered(p) \/ p \in left_behind))


\* ------------------------------------------------------------------ C34
\* C34: no post is handed on towards the bot before its own scheduled_time: while a
\* post is fanned out the clock is at or past the scheduled_time of its row.
C34_NotBeforeOwnTime ==
  \A p \in DOMAIN posts : FanningOut(p) => now >= posts[p].scheduled_time


\* ------------------------------------------------------------------ C35
\* the gather of a fan-out returns in the step
GatherReturns == poster.pc = "fanout" /\ GatherDone(poster.tasks) /\ poster' # poster

\* the pairs the step has added to failed_sends
NotedPairs ==
  IF poster'.pc \in {"fanout", "retry_send"} /\ Len(poster'.failed_sends) > Len(poster.failed_sends)
  THEN SubSeq(poster'.failed_sends, Len(poster.failed_sends) + 1, Len(poster'.failed_sends))
  ELSE <<>>

\* the destinations of the fan-out whose attempt did not deliver, in task order
RECURSIVE Undelivered(_, _)
Undelivered(tasks, n) ==
  IF n > Len(tasks) THEN <<>>
  ELSE (IF tasks[n].state = "sent" THEN <<>> ELSE <<tasks[n].channel_id>>)
       \o Undelivered(tasks, n + 1)

\* C35: when the gather of a fan-out returns, also after the operator has removed or
\* added destinations during it, the recording does not raise (it does not index
\* outside the current list) and, unless a stop has ended the run there, the pairs
\* it notes are those of the destinations whose attempts did not deliver.
C35_FailedPairsNameTheFailed ==
  [][GatherReturns =>
       /\ poster'.pc # "loop_pause"
       /\ poster'.pc \in {"fanout", "retry_send"} =>
            [n \in DOMAIN NotedPairs |-> NotedPairs[n].channel_id]
              = Undelivered(poster.tasks, 1)]_vars


\* ------------------------------------------------------------------ C36
\* C36: under dispatch alone no step takes a destination off the skip list: a
\* destination on the list has no attempt with the Sender, and every step of a
\* fan-out or a retry, in any pass, leaves on the list what is on it.
C36_SkipListOnlyGrows ==
  /\ [](\A d \in skip_list : ~InFlight(d))
  /\ [][skip_list \subseteq skip_list']_vars

\* a pass after the one that recorded the permanent failure fans a post out; the
\* destination is on the list and skipped, and another destination has delivered
C36_Witness ==
  /\ passes >= 2
  /\ poster.pc = "fanout"
  /\ \E n, m \in DOMAIN poster.tasks :
       /\ poster.tasks[n].channel_id \in skip_list
       /\ poster.tasks[n].state = "skipped"
       /\ poster.tasks[m].state = "sent"


\* ------------------------------------------------------------------ C37
\* the rows the pass in hand has fetched (889-893), in the order of the fetch
Fetched == Limited(Ordered(Due(poster.now_utc)))

\* the posts of runs[n..], run after run
RECURSIVE Concatenated(_, _)
Concatenated(runs, n) ==
  IF n > Len(runs) THEN <<>> ELSE runs[n].posts \o Concatenated(runs, n + 1)

\* C37: the runs of a pass partition the rows it has fetched: no run is empty, the
\* runs one after the other are the fetched list (so every run is a segment of the
\* list and every row is in one run and in one place), and the list is in the order
\* of the scheduled times.
C37_RunsPartitionFetched ==
  Partitioned =>
    /\ \A b \in DOMAIN poster.batches : poster.batches[b].posts # <<>>
    /\ Concatenated(poster.batches, 1) = Fetched
    /\ \A n, m \in DOMAIN Fetched :
         /\ n < m => Fetched[n].scheduled_time <= Fetched[m].scheduled_time
         /\ n # m => Fetched[n].id # Fetched[m].id
    /\ \A p \in Due(poster.now_utc) :
         Cardinality({b \in DOMAIN poster.batches : p \in RunIds(b)}) = 1

\* four rows in two runs or more, one of them of several posts
C37_Witness ==
  /\ Partitioned
  /\ Len(Fetched) = GroupPosts
  /\ Len(poster.batches) >= 2
  /\ \E b \in DOMAIN poster.batches : Len(poster.batches[b].posts) >= 2


\* ------------------------------------------------------------------ C38
\* the destinations post p has been delivered to by its fan-out in the run in hand
DeliveredByFanOut(p) == {d \in Channels : DeliveredInFanOut(p, d)}

\* C38: the tally persisted for a post of the run in hand is the number of
\* destinations its fan-out has delivered to: between 0 and the number of active
\* destinations, with nothing for a destination that was skipped or whose attempt
\* failed, and nothing for a retry that succeeded later.
C38_TallyIsFanOutSuccesses ==
  InRun(poster) =>
    \A p \in RunIds(poster.b) :
      Delivered(p) =>
        /\ posts[p].successful_posts = Cardinality(DeliveredByFanOut(p))
        /\ posts[p].successful_posts >= 0
        /\ posts[p].successful_posts <= Len(channel_ids)
        /\ \A d \in Channels :
             (<<p, d>> \notin DOMAIN handed \/ <<p, d>> \in DOMAIN first_failure)
               => d \notin DeliveredByFanOut(p)

\* a post is persisted with a tally of one destination out of two: the attempt at
\* the other failed, and its retry has succeeded since
C38_Witness ==
  /\ poster.pc = "run_pause"
  /\ \E p \in RunIds(poster.b) :
       /\ Delivered(p)
       /\ posts[p].successful_posts = 1
       /\ \E d \in Channels :
            /\ <<p, d>> \in DOMAIN first_failure
            /\ Handed(<<p, d>>) = 2
            /\ Recorded(d) = "success"


\* ------------------------------------------------------------------ C39
\* C39: in a governor whose ceiling is above the minimum safety rate, flood_detected
\* is set exactly while current_rate is below the ceiling: not degraded, the rate is
\* the ceiling; degraded, it is strictly below it.
C39_DegradedIffBelowCeiling ==
  base_global_rate > MIN_SAFETY_RATE * RateScale =>
    /\ flood_detected <=> current_rate < base_global_rate
    /\ ~flood_detected => current_rate = base_global_rate

\* the governor has been degraded and has recovered its ceiling
C39_Witness ==
  /\ base_global_rate > MIN_SAFETY_RATE * RateScale
  /\ floods >= 1
  /\ ~flood_detected
  /\ current_rate = base_global_rate


\* ------------------------------------------------------------------ C40
\* task t holds the lock of some destination
HoldsChatLock(t) == \E c \in DOMAIN chat_locks : chat_locks[c] = t

\* the event loop can resume task t inside acquire: the lock it waits for is free, or
\* it sleeps (its sleep is over, or time can pass until it is)
CanProceed(t) ==
  \/ pc[t] = "g_wait" /\ ~GlobalLocked
  \/ pc[t] = "c_wait" /\ ~ChatLocked(chat_locks, arg[t])
  \/ Sleeping(t)

\* a step of a task inside acquire, or of the clock towards the end of a sleep
GovStep == pc' # pc \/ (now' # now /\ idleTicks' = idleTicks)

\* the event loop resumes the tasks inside acquire whenever one can be resumed
GovTreatedFairly ==
  []<>(~\E t \in Tasks : CanProceed(t)) \/ []<><<GovStep>>_vars

\* C40: no task holds the global lock and a destination's lock at the same time,
\* the holder of a lock is in the sleep of its section, which is over within the time
\* of one token, while
\* a task is inside acquire some task inside acquire can be resumed (no deadlock),
\* and if the event loop resumes the tasks whenever it can, every call of acquire
\* returns.
C40_AcquireReturns ==
  /\ [](\A t \in Tasks :
          /\ ~(global_lock = t /\ HoldsChatLock(t))
          /\ global_lock = t =>
               pc[t] = "g_sleep" /\ wake[t] <= now + GlobalWait(0, current_rate)
          /\ HoldsChatLock(t) =>
               pc[t] = "c_sleep" /\ wake[t] <= now + ChatWait(0, per_chat_rate))
  /\ []((\E t \in Tasks : pc[t] # "idle") => \E t \in Tasks : CanProceed(t))
  /\ GovTreatedFairly => \A t \in Tasks : (pc[t] # "idle") ~> (pc[t] = "idle")

\* a caller waits for the global lock behind a sleeper while the other lock of the
\* governor is in use too, after an earlier call has returned
C40_Witness ==
  /\ aDone >= 1
  /\ \E t, u \in Tasks : pc[t] = "g_wait" /\ pc[u] = "g_sleep" /\ global_lock = u

=============================================================================
